---- MODULE Spec2Model ----
(***************************************************************************)
(* A model of the Ochra picture viewer: the directory navigator            *)
(* (src/src/navigator.rs) and the threaded picture decoder                 *)
(* (src/src/loader.rs).                                                    *)
(*                                                                         *)
(* Paths.  The watched directory is Root; it can hold the entries          *)
(* 1..MaxName.  The order of PathBuf (component-wise, lexicographic) is    *)
(* the order of the integers, and the extension of an entry is a function  *)
(* of its name (ExtensionOf).  The directory holds files and at most one    *)
(* sub-directory, and a sub-directory holds no entries.                    *)
(***************************************************************************)
EXTENDS Integers, Sequences, FiniteSets, TLC

\* ------------------------------------------------------------ bounds
MaxName == 4    \* names the watched directory can hold
MaxBatch == 2   \* watch events drained by one refresh
MaxLoads == 3   \* calls of set_filepath in one run
MaxPath == 2    \* paths the decoder is asked for
MaxFrames == 2  \* frames of an animation
MaxInterval == 2 \* the longest delay a frame declares
MaxZooms == 1   \* conversions into ZoomInteraction in one run
MaxQueued == 1  \* paths of the driver waiting in send_to_thread_path

\* ------------------------------------------------------------ paths
Root == 0
Names == 1..MaxName
Paths == {Root} \cup Names

Kinds == {"file", "dir", "none"}

\* Path::extension() of entry n; "" stands for None
ExtTable == <<"png", "txt", "PNG", "gif", "">>
ExtensionOf(n) == ExtTable[((n - 1) % Len(ExtTable)) + 1]

\* picture::extensions(), restricted to the extensions the entries can have
Extensions == {"png", "gif", "jpg"}

\* u8::to_ascii_lowercase over the extensions in use
AsciiLower(e) ==
    CASE e = "PNG" -> "png"
      [] e = "GIF" -> "gif"
      [] e = "JPG" -> "jpg"
      [] e = "TXT" -> "txt"
      [] OTHER -> e

EqIgnoreAsciiCase(a, b) == AsciiLower(a) = AsciiLower(b)

\* ------------------------------------------------------------ integers
\* i64 % i64 of Rust: the remainder has the sign of the dividend
RemTrunc(a, b) == IF a >= 0 THEN a % b ELSE 0 - ((0 - a) % b)

\* rem_euclid taken for %
RemEuclidTruncates(a, b) == RemTrunc(a, b)

\* i64::rem_euclid
RemEuclid(a, b) ==
    LET r == RemTrunc(a, b)
    IN  IF r < 0 THEN r + (IF b < 0 THEN 0 - b ELSE b) ELSE r

\* ------------------------------------------------------------ FileType
\* FileType::from, on the filesystem f
FileTypeOf(f, p) ==
    IF p = Root THEN "Directory"
    ELSE CASE f[p] = "file" -> "File"
           [] f[p] = "dir" -> "Directory"
           [] OTHER -> "Unknown"

IsFile(f, p) == p \in Names /\ f[p] = "file"

Parent(p) == Root

AsDirpath(f, p) ==
    CASE FileTypeOf(f, p) = "Directory" -> [err |-> "Ok", path |-> p]
      [] FileTypeOf(f, p) = "File" -> [err |-> "Ok", path |-> Parent(p)]
      [] OTHER -> [err |-> "InvalidPath", path |-> p]

\* ------------------------------------------------------------ Filepaths
\* fs::read_dir(d): the entries of d, here listed from the last name to the
\* first (the order of a directory listing is the filesystem's)
RECURSIVE ReadDirFrom(_, _, _)
ReadDirFrom(f, d, n) ==
    IF n = 0 \/ d # Root THEN <<>>
    ELSE (IF f[n] # "none" THEN <<n>> ELSE <<>>) \o ReadDirFrom(f, d, n - 1)

ReadDir(f, d) == ReadDirFrom(f, d, MaxName)

FilepathsFromPath(f, p, ioError) ==
    LET dir == AsDirpath(f, p)
    IN  IF dir.err # "Ok" THEN [err |-> dir.err, path |-> p, list |-> <<>>]
        ELSE IF ioError THEN [err |-> "IO", path |-> Root, list |-> <<>>]
        ELSE [err |-> "Ok", path |-> Root,
              list |-> SelectSeq(ReadDir(f, dir.path), LAMBDA q : IsFile(f, q))]

\* Filepaths::search_for: the first position of p, -1 for None
SearchFor(list, p) ==
    IF \E i \in 1..Len(list) : list[i] = p
    THEN (CHOOSE i \in 1..Len(list) :
            list[i] = p /\ \A j \in 1..(i - 1) : list[j] # p) - 1
    ELSE -1

FilterByExtensions(list) ==
    SelectSeq(list, LAMBDA p :
        ExtensionOf(p) # "" /\ \E x \in Extensions : EqIgnoreAsciiCase(ExtensionOf(p), x))

RECURSIVE Insert(_, _)
Insert(sorted, x) ==
    IF sorted = <<>> THEN <<x>>
    ELSE IF x < Head(sorted) THEN <<x>> \o sorted
    ELSE <<Head(sorted)>> \o Insert(Tail(sorted), x)

\* Filepaths::sort leaving the listing in the order read_dir gave it
SortKeepsOrder(list) == list

RECURSIVE Sort(_)
Sort(list) == IF list = <<>> THEN <<>> ELSE Insert(Sort(Tail(list)), Head(list))

\* Vec::remove(index), index counted from 0
VecRemove(list, index) ==
    [i \in 1..(Len(list) - 1) |-> IF i <= index THEN list[i] ELSE list[i + 1]]

\* ------------------------------------------------------------ events
NoPath == Root
NoEvent == [kind |-> "None", path |-> NoPath, dest |-> NoPath]
Write(p) == [kind |-> "Write", path |-> p, dest |-> NoPath]
Remove(p) == [kind |-> "Remove", path |-> p, dest |-> NoPath]
Rename(s, d) == [kind |-> "Rename", path |-> s, dest |-> d]
Unit(k) == [kind |-> k, path |-> NoPath, dest |-> NoPath]

\* notify::DebouncedEvent; the path of the events that refresh matches
\* with (..) or _ is left out
Events ==
    {Write(p) : p \in Names} \cup {Remove(p) : p \in Names}
    \cup {Rename(s, d) : s \in Names, d \in Names}
    \cup {Unit(k) : k \in {"Rescan", "Chmod", "Create",
                           "NoticeWrite", "NoticeRemove", "Error"}}

\* the steps navigate is called with (i8)
Directions == {-128, 0 - (MaxName + 1), -1, 0, 1, MaxName + 1, 127}

\* ------------------------------------------------------------ state
VARIABLES
    nav,        \* "none" | "ready" | "refreshing" | "failed"
    filepaths,  \* FilepathsNavigator.filepaths
    cursor,     \* FilepathsNavigator.cursor
    dirty,      \* refresh: local dirty
    rescan,     \* refresh: local rescan
    processed,  \* refresh: messages of the batch already handled
    result,     \* the outcome of the last from_path or refresh
    last,       \* the last navigator step: its inputs and the state it started from
    quiet       \* the list and cursor a refresh started from, kept while its batch
                \* so far holds only Write events for paths other than the selected

navVars == <<nav, filepaths, cursor, dirty, rescan, processed, result, last, quiet>>

\* ThreadedPictureDecoder, its worker thread and its caller
VARIABLES
    reqQ,       \* send_to_thread_path -> receive_on_thread_path
    finQ,       \* send_to_main_path -> receive_on_main_path
    contQ,      \* send_to_thread_continue -> receive_on_thread_continue
    mailbox,    \* picture_result
    current,    \* current_path, with the number of the request that set it
    loads,      \* calls of set_filepath so far
    wpc,        \* worker: "recv" | "decode" | "publish" | "wait"
    job,        \* worker: filepath
    mpc,        \* try_fetch_picture: "idle" | "continue" | "panicked"
    received,   \* try_fetch_picture: filepath
    fetched     \* try_fetch_picture: the value of the last call

loaderVars ==
    <<reqQ, finQ, contQ, mailbox, current, loads, wpc, job, mpc, received, fetched>>

\* StreamingPlayer and the clock it reads
VARIABLES
    player,     \* the player: its looper (stash, playhead, the frames not yet
                \* pulled from the decoder) and its interval
    elapsed,    \* player.onset.elapsed(), counted up to MaxInterval + 1
    frame,      \* StreamingPlayer::next: the value of the last call
    tick        \* the last call of StreamingPlayer::next: what it started from

playerVars == <<player, elapsed, frame, tick>>

\* PictureLoader
VARIABLES
    picture,    \* PictureLoader.picture
    yielded,    \* Iterator::next: the value of the last call
    items,      \* the items other than None yielded since the last load (the first three)
    errors      \* the PictureError items yielded since the last load (up to two)

seqVars == <<picture, yielded, items, errors>>

\* Interface: the InteractionMachine, its InterfaceRenderer and the window system
VARIABLES
    interaction, \* the variant of InterfaceEnum: "None" before Interface::new,
                 \* "DisabledInteraction" | "NoInteraction" | "DragInteraction" |
                 \* "ZoomInteraction", "Err" once a call returned Err (the machine
                 \* was moved into the call and is gone), "Panicked"
    mode,        \* Renderer.mode of the main window
    window,      \* the main window: outer position and size
    viewport,    \* RenderWindow.viewport of the main window
    pointer,     \* InteractionMachine.cursor
    zoom,        \* InteractionMachine<ZoomInteraction>.interaction
    platform,    \* the window system: whether outer_position is supported, and
                 \* the size of the monitor
    zooms,       \* conversions into ZoomInteraction so far
    call         \* the last call on the interface: what it was and what it started from

ifaceVars == <<interaction, mode, window, viewport, pointer, zoom, platform, zooms, call>>

\* App: the driver of app.rs, with its own PictureLoader (the channels and the
\* worker thread of the decoder) and its RenderWindow (mode)
VARIABLES
    state,             \* App.state: the variant of AppState with its navigator's
                       \* selected path, the time since its Instant and the kind
                       \* of its Picture; "None" before App::new, "Exited" once
                       \* the process has exited, "Panicked"
    windowInteraction, \* App.interaction: "None" | "Unavailable" | "Drag" | "Zoom"
    handled            \* the last call on the driver: what it was, what the
                       \* navigator's refresh reported in it; turn changes
                       \* with every call

appVars == <<state, windowInteraction, handled>>

vars == <<navVars, loaderVars, playerVars, seqVars, ifaceVars, appVars>>

notNav == <<loaderVars, playerVars, seqVars, ifaceVars, appVars>>
notLoader == <<navVars, ifaceVars, appVars>>
notPlayer == <<navVars, loaderVars, seqVars, ifaceVars, appVars>>
notInterface == <<navVars, loaderVars, playerVars, seqVars, appVars>>
notApp == <<navVars, playerVars, seqVars,
            interaction, window, viewport, pointer, zoom, platform, zooms, call>>

\* the directories the program can find: the kind of each entry; files, and
\* at most one sub-directory
Directories ==
    {f \in [Names -> Kinds] : Cardinality({n \in Names : f[n] = "dir"}) <= 1}
NoDirectory == [n \in Names |-> "none"]

\* FilepathsNavigator::selected
Selected(list, c) == list[c + 1]

NoResult == [kind |-> "None", path |-> NoPath, dirty |-> FALSE]
Ok(d) == [kind |-> "Ok", path |-> NoPath, dirty |-> d]
Err(k, p) == [kind |-> k, path |-> p, dirty |-> FALSE]

NoStep ==
    [op |-> "none", ev |-> NoEvent, d |-> 0, path |-> NoPath,
     fs |-> NoDirectory, io |-> FALSE, ne |-> FALSE,
     filepaths |-> <<>>, cursor |-> 0, dirty |-> FALSE, rescan |-> FALSE]

\* a step that does not read the directory, and the state it starts from
Step(op, ev, d) ==
    [NoStep EXCEPT !.op = op, !.ev = ev, !.d = d,
                   !.filepaths = filepaths, !.cursor = cursor,
                   !.dirty = dirty, !.rescan = rescan]

NotQuiet == [on |-> FALSE, filepaths |-> <<>>, cursor |-> 0]

NavInit ==
    /\ quiet = NotQuiet
    /\ nav = "none"
    /\ filepaths = <<>>
    /\ cursor = 0
    /\ dirty = FALSE
    /\ rescan = FALSE
    /\ processed = 0
    /\ result = NoResult
    /\ last = NoStep

\* from_path leaving the cursor on the first entry
FromPathResultFirstEntry(f, path, ioError, notifyError) ==
    LET scanned == FilepathsFromPath(f, path, ioError)
        list == Sort(FilterByExtensions(scanned.list))
        index == SearchFor(list, path)
        fail(k, p) == [err |-> k, path |-> p, list |-> <<>>, cursor |-> 0]
    IN  IF scanned.err # "Ok" THEN fail(scanned.err, scanned.path)
        ELSE IF IsFile(f, path) /\ index = -1 THEN fail("NoMatchingEntry", path)
        ELSE IF notifyError THEN fail("Notify", NoPath)
        ELSE IF list = <<>> THEN fail("EmptyList", NoPath)
        ELSE [err |-> "Ok", path |-> NoPath, list |-> list, cursor |-> 0]

\* from_path without this.nonempty()
FromPathResultNoEmptyCheck(f, path, ioError, notifyError) ==
    LET scanned == FilepathsFromPath(f, path, ioError)
        list == Sort(FilterByExtensions(scanned.list))
        index == SearchFor(list, path)
        fail(k, p) == [err |-> k, path |-> p, list |-> <<>>, cursor |-> 0]
    IN  IF scanned.err # "Ok" THEN fail(scanned.err, scanned.path)
        ELSE IF IsFile(f, path) /\ index = -1 THEN fail("NoMatchingEntry", path)
        ELSE IF notifyError THEN fail("Notify", NoPath)
        ELSE [err |-> "Ok", path |-> NoPath, list |-> list,
              cursor |-> IF IsFile(f, path) THEN index ELSE 0]

\* FilepathsNavigator::from_path: [err, path, list, cursor]
FromPathResult(f, path, ioError, notifyError) ==
    LET scanned == FilepathsFromPath(f, path, ioError)
        list == Sort(FilterByExtensions(scanned.list))
        index == SearchFor(list, path)
        fail(k, p) == [err |-> k, path |-> p, list |-> <<>>, cursor |-> 0]
    IN  IF scanned.err # "Ok" THEN fail(scanned.err, scanned.path)
        ELSE IF IsFile(f, path) /\ index = -1 THEN fail("NoMatchingEntry", path)
        ELSE IF AsDirpath(f, path).err # "Ok" THEN fail("InvalidPath", path)
        ELSE IF notifyError THEN fail("Notify", NoPath)
        ELSE IF list = <<>> THEN fail("EmptyList", NoPath)
        ELSE [err |-> "Ok", path |-> NoPath, list |-> list,
              cursor |-> IF IsFile(f, path) THEN index ELSE 0]

\* f is the directory at the time of the call; the model follows one
\* navigator at a time, so the previous one has been dropped
FromPath(f, path, ioError, notifyError) ==
    /\ nav = "none"
    /\ LET r == FromPathResult(f, path, ioError, notifyError)
       IN  /\ nav' = IF r.err = "Ok" THEN "ready" ELSE "failed"
           /\ filepaths' = r.list
           /\ cursor' = r.cursor
           /\ result' = IF r.err = "Ok" THEN Ok(FALSE) ELSE Err(r.err, r.path)
    /\ last' = [NoStep EXCEPT !.op = "from_path", !.path = path, !.fs = f,
                              !.io = ioError, !.ne = notifyError]
    /\ quiet' = NotQuiet
    /\ UNCHANGED <<dirty, rescan, processed>>
    /\ UNCHANGED notNav

\* the navigator is dropped (replaced by change_path), or the error of a
\* failed from_path or refresh, which leaves no navigator, is
Drop ==
    /\ nav \in {"ready", "failed"}
    /\ nav' = "none"
    /\ filepaths' = <<>>
    /\ cursor' = 0
    /\ dirty' = FALSE
    /\ rescan' = FALSE
    /\ processed' = 0
    /\ result' = NoResult
    /\ last' = NoStep
    /\ quiet' = NotQuiet
    /\ UNCHANGED notNav

\* FilepathsNavigator::navigate
\* (the casts to i64 and back to usize keep the values: the remainder is in [0, len))
NavigateCursor(c, len, direction) == RemEuclid(c + direction, len)

Navigate(direction) ==
    /\ nav = "ready"
    /\ cursor' = NavigateCursor(cursor, Len(filepaths), direction)
    /\ last' = Step("navigate", NoEvent, direction)
    /\ quiet' = NotQuiet
    /\ UNCHANGED <<nav, filepaths, dirty, rescan, processed, result>>
    /\ UNCHANGED notNav

\* refresh: the messages are drained from the watcher's channel
RefreshBegin ==
    /\ nav = "ready"
    /\ nav' = "refreshing"
    /\ dirty' = FALSE
    /\ rescan' = FALSE
    /\ processed' = 0
    /\ last' = Step("begin", NoEvent, 0)
    /\ quiet' = [on |-> TRUE, filepaths |-> filepaths, cursor |-> cursor]
    /\ UNCHANGED <<filepaths, cursor, result>>
    /\ UNCHANGED notNav

\* the Remove arm without its `else if index < self.cursor` branch
RemoveArmNoDecrement(list, c, d, r, index) ==
    LET removed == VecRemove(list, index)
    IN  IF removed = <<>>
        THEN [filepaths |-> removed, cursor |-> c, dirty |-> d, rescan |-> r,
              err |-> "EmptyList"]
        ELSE IF index = c
        THEN [filepaths |-> removed, cursor |-> c % Len(removed), dirty |-> TRUE,
              rescan |-> r, err |-> "Ok"]
        ELSE [filepaths |-> removed, cursor |-> c, dirty |-> d,
              rescan |-> r, err |-> "Ok"]

\* the Remove arm moving to the predecessor of a removed selection
RemoveArmPredecessor(list, c, d, r, index) ==
    LET removed == VecRemove(list, index)
    IN  IF removed = <<>>
        THEN [filepaths |-> removed, cursor |-> c, dirty |-> d, rescan |-> r,
              err |-> "EmptyList"]
        ELSE IF index = c
        THEN [filepaths |-> removed, cursor |-> IF c = 0 THEN 0 ELSE c - 1,
              dirty |-> TRUE, rescan |-> r, err |-> "Ok"]
        ELSE IF index < c
        THEN [filepaths |-> removed, cursor |-> c - 1, dirty |-> d,
              rescan |-> r, err |-> "Ok"]
        ELSE [filepaths |-> removed, cursor |-> c, dirty |-> d,
              rescan |-> r, err |-> "Ok"]

\* refresh: the Remove arm, for a path found at index
RemoveArm(list, c, d, r, index) ==
    LET removed == VecRemove(list, index)
    IN  IF removed = <<>>
        THEN [filepaths |-> removed, cursor |-> c, dirty |-> d, rescan |-> r,
              err |-> "EmptyList"]
        ELSE IF index = c
        THEN [filepaths |-> removed, cursor |-> c % Len(removed), dirty |-> TRUE,
              rescan |-> r, err |-> "Ok"]
        ELSE IF index < c
        THEN [filepaths |-> removed, cursor |-> c - 1, dirty |-> d,
              rescan |-> r, err |-> "Ok"]
        ELSE [filepaths |-> removed, cursor |-> c, dirty |-> d,
              rescan |-> r, err |-> "Ok"]

\* the loop with a Write arm that takes any listed path
MatchReceivedAnyWrite(list, c, d, r, ev) ==
    LET same == [filepaths |-> list, cursor |-> c, dirty |-> d, rescan |-> r,
                 err |-> "Ok"]
    IN  CASE ev.kind = "Write" /\ SearchFor(list, ev.path) # -1
                -> [same EXCEPT !.dirty = TRUE]
          [] ev.kind \in {"Rescan", "Chmod", "Create"}
                -> [same EXCEPT !.rescan = TRUE]
          [] ev.kind = "Remove"
                -> IF SearchFor(list, ev.path) # -1
                   THEN RemoveArm(list, c, d, r, SearchFor(list, ev.path))
                   ELSE same
          [] ev.kind = "Rename" /\ ev.path = Selected(list, c)
                -> [same EXCEPT !.filepaths = [list EXCEPT ![c + 1] = ev.dest],
                                !.rescan = TRUE]
          [] OTHER -> same

\* refresh: one turn of the loop over the messages
MatchReceived(list, c, d, r, ev) ==
    LET same == [filepaths |-> list, cursor |-> c, dirty |-> d, rescan |-> r,
                 err |-> "Ok"]
    IN  CASE ev.kind = "Write" /\ ev.path = Selected(list, c)
                -> [same EXCEPT !.dirty = TRUE]
          [] ev.kind \in {"Rescan", "Chmod", "Create"}
                -> [same EXCEPT !.rescan = TRUE]
          [] ev.kind = "Remove"
                -> IF SearchFor(list, ev.path) # -1
                   THEN RemoveArm(list, c, d, r, SearchFor(list, ev.path))
                   ELSE same
          [] ev.kind = "Rename" /\ ev.path = Selected(list, c)
                -> [same EXCEPT !.filepaths = [list EXCEPT ![c + 1] = ev.dest],
                                !.rescan = TRUE]
          [] OTHER -> same

RefreshEvent(ev) ==
    /\ nav = "refreshing"
    /\ processed < MaxBatch
    /\ LET m == MatchReceived(filepaths, cursor, dirty, rescan, ev)
       IN  /\ filepaths' = m.filepaths
           /\ cursor' = m.cursor
           /\ dirty' = m.dirty
           /\ rescan' = m.rescan
           /\ nav' = IF m.err = "Ok" THEN "refreshing" ELSE "failed"
           /\ result' = IF m.err = "Ok" THEN result ELSE Err(m.err, NoPath)
    /\ processed' = processed + 1
    /\ last' = Step("event", ev, 0)
    /\ quiet' = IF quiet.on /\ ev.kind = "Write" /\ ev.path # Selected(filepaths, cursor)
                THEN quiet ELSE NotQuiet
    /\ UNCHANGED notNav

\* rescan keeping the old index while it is in range
RescanResultKeepsIndex(f, list, c, ioError) ==
    LET selected == Selected(list, c)
        scanned == FilepathsFromPath(f, selected, ioError)
        found == Sort(FilterByExtensions(scanned.list))
        index == SearchFor(found, selected)
    IN  IF scanned.err # "Ok"
        THEN [err |-> scanned.err, path |-> scanned.path,
              filepaths |-> list, cursor |-> c]
        ELSE IF index = -1
        THEN [err |-> "NoMatchingEntry", path |-> selected,
              filepaths |-> list, cursor |-> c]
        ELSE [err |-> "Ok", path |-> NoPath, filepaths |-> found,
              cursor |-> IF c < Len(found) THEN c ELSE index]

\* rescan testing for the empty list before it searches
RescanResultEmptyFirst(f, list, c, ioError) ==
    LET selected == Selected(list, c)
        scanned == FilepathsFromPath(f, selected, ioError)
        found == Sort(FilterByExtensions(scanned.list))
        index == SearchFor(found, selected)
    IN  IF scanned.err # "Ok"
        THEN [err |-> scanned.err, path |-> scanned.path,
              filepaths |-> list, cursor |-> c]
        ELSE IF found = <<>>
        THEN [err |-> "EmptyList", path |-> NoPath,
              filepaths |-> found, cursor |-> c]
        ELSE IF index = -1
        THEN [err |-> "NoMatchingEntry", path |-> selected,
              filepaths |-> list, cursor |-> c]
        ELSE [err |-> "Ok", path |-> NoPath, filepaths |-> found, cursor |-> index]

\* rescan replacing the list before it searches
RescanResultAssignsFirst(f, list, c, ioError) ==
    LET selected == Selected(list, c)
        scanned == FilepathsFromPath(f, selected, ioError)
        found == Sort(FilterByExtensions(scanned.list))
        index == SearchFor(found, selected)
    IN  IF scanned.err # "Ok"
        THEN [err |-> scanned.err, path |-> scanned.path,
              filepaths |-> list, cursor |-> c]
        ELSE IF index = -1
        THEN [err |-> "NoMatchingEntry", path |-> selected,
              filepaths |-> found, cursor |-> c]
        ELSE [err |-> "Ok", path |-> NoPath, filepaths |-> found, cursor |-> index]

\* FilepathsNavigator::rescan: [err, path, filepaths, cursor]
RescanResult(f, list, c, ioError) ==
    LET selected == Selected(list, c)
        scanned == FilepathsFromPath(f, selected, ioError)
        found == Sort(FilterByExtensions(scanned.list))
        index == SearchFor(found, selected)
    IN  IF scanned.err # "Ok"
        THEN [err |-> scanned.err, path |-> scanned.path,
              filepaths |-> list, cursor |-> c]
        ELSE IF index = -1
        THEN [err |-> "NoMatchingEntry", path |-> selected,
              filepaths |-> list, cursor |-> c]
        ELSE IF found = <<>>
        THEN [err |-> "EmptyList", path |-> NoPath,
              filepaths |-> found, cursor |-> index]
        ELSE [err |-> "Ok", path |-> NoPath, filepaths |-> found, cursor |-> index]

\* refresh: after the loop; f is the directory at the time of the rescan
RefreshEnd(f, ioError) ==
    /\ nav = "refreshing"
    /\ rescan \/ (f = NoDirectory /\ ~ioError)
    /\ LET r == IF rescan THEN RescanResult(f, filepaths, cursor, ioError)
                ELSE [err |-> "Ok", path |-> NoPath,
                      filepaths |-> filepaths, cursor |-> cursor]
       IN  /\ filepaths' = r.filepaths
           /\ cursor' = r.cursor
           /\ nav' = IF r.err = "Ok" THEN "ready" ELSE "failed"
           /\ result' = IF r.err = "Ok" THEN Ok(dirty) ELSE Err(r.err, r.path)
    /\ last' = [Step("end", NoEvent, 0) EXCEPT !.fs = f, !.io = ioError]
    /\ UNCHANGED quiet
    /\ UNCHANGED <<dirty, rescan, processed>>
    /\ UNCHANGED notNav

NavNext ==
    \/ \E f \in Directories, p \in Paths, io \in BOOLEAN, ne \in BOOLEAN :
            FromPath(f, p, io, ne)
    \/ Drop
    \/ \E d \in Directions : Navigate(d)
    \/ RefreshBegin
    \/ \E ev \in Events : RefreshEvent(ev)
    \/ \E f \in Directories, io \in BOOLEAN : RefreshEnd(f, io)

\* ------------------------------------------------------------ decoder
\* the paths the decoder is asked for
DecodePaths == 1..MaxPath

\* a request, and the finished path answering it; id numbers the requests
\* (the channels carry the path alone)
NoJob == [path |-> NoPath, id |-> 0]

\* Option<PictureResult<Picture>>: the outcome of decoding request id
None == [some |-> FALSE, path |-> NoPath, id |-> 0, ok |-> FALSE]
Some(j, ok) == [some |-> TRUE, path |-> j.path, id |-> j.id, ok |-> ok]

\* ThreadedPictureDecoder::new
LoaderInit ==
    /\ reqQ = <<>>
    /\ finQ = <<>>
    /\ contQ = 0
    /\ mailbox = None
    /\ current = NoJob
    /\ loads = 0
    /\ wpc = "recv"
    /\ job = NoJob
    /\ mpc = "idle"
    /\ received = NoJob
    /\ fetched = None

\* ThreadedPictureDecoder::set_filepath
SetFilepath(p) ==
    /\ mpc = "idle"
    /\ loads < MaxLoads
    /\ loads' = loads + 1
    /\ reqQ' = Append(reqQ, [path |-> p, id |-> loads + 1])
    /\ current' = [path |-> p, id |-> loads + 1]
    /\ UNCHANGED <<finQ, contQ, mailbox, wpc, job, mpc, received, fetched>>
    /\ UNCHANGED notLoader

\* try_fetch_picture sending continue when no finished path is there as well
TryFetchReceiveAlwaysContinues ==
    /\ mpc = "idle"
    /\ current # NoJob
    /\ IF finQ = <<>>
       THEN /\ fetched' = None
            /\ mpc' = "continue"
            /\ UNCHANGED <<finQ, mailbox, received>>
       ELSE /\ finQ' = Tail(finQ)
            /\ received' = Head(finQ)
            /\ IF Head(finQ).path = current.path
               THEN IF mailbox.some
                    THEN fetched' = mailbox /\ mailbox' = None /\ mpc' = "continue"
                    ELSE mpc' = "panicked" /\ UNCHANGED <<mailbox, fetched>>
               ELSE fetched' = None /\ mpc' = "continue" /\ UNCHANGED mailbox
    /\ UNCHANGED <<reqQ, contQ, current, loads, wpc, job>>
    /\ UNCHANGED notLoader

\* try_fetch_picture taking the mailbox for any finished path
TryFetchReceiveAnyPath ==
    /\ mpc = "idle"
    /\ current # NoJob
    /\ IF finQ = <<>>
       THEN /\ fetched' = None
            /\ UNCHANGED <<finQ, mailbox, mpc, received>>
       ELSE /\ finQ' = Tail(finQ)
            /\ received' = Head(finQ)
            /\ IF mailbox.some
               THEN fetched' = mailbox /\ mailbox' = None /\ mpc' = "continue"
               ELSE mpc' = "panicked" /\ UNCHANGED <<mailbox, fetched>>
    /\ UNCHANGED <<reqQ, contQ, current, loads, wpc, job>>
    /\ UNCHANGED notLoader

\* try_fetch_picture emptying the mailbox of a superseded job
TryFetchReceiveDrains ==
    /\ mpc = "idle"
    /\ current # NoJob
    /\ IF finQ = <<>>
       THEN /\ fetched' = None
            /\ UNCHANGED <<finQ, mailbox, mpc, received>>
       ELSE /\ finQ' = Tail(finQ)
            /\ received' = Head(finQ)
            /\ IF Head(finQ).path = current.path
               THEN IF mailbox.some
                    THEN fetched' = mailbox /\ mailbox' = None /\ mpc' = "continue"
                    ELSE mpc' = "panicked" /\ UNCHANGED <<mailbox, fetched>>
               ELSE fetched' = None /\ mpc' = "continue" /\ mailbox' = None
    /\ UNCHANGED <<reqQ, contQ, current, loads, wpc, job>>
    /\ UNCHANGED notLoader

\* try_fetch_picture up to the result: try_recv, the comparison and the take
TryFetchReceive ==
    /\ mpc = "idle"
    /\ current # NoJob
    /\ IF finQ = <<>>
       THEN /\ fetched' = None
            /\ UNCHANGED <<finQ, mailbox, mpc, received>>
       ELSE /\ finQ' = Tail(finQ)
            /\ received' = Head(finQ)
            /\ IF Head(finQ).path = current.path
               THEN IF mailbox.some
                    THEN fetched' = mailbox /\ mailbox' = None /\ mpc' = "continue"
                    ELSE mpc' = "panicked" /\ UNCHANGED <<mailbox, fetched>>
               ELSE fetched' = None /\ mpc' = "continue" /\ UNCHANGED mailbox
    /\ UNCHANGED <<reqQ, contQ, current, loads, wpc, job>>
    /\ UNCHANGED notLoader

\* try_fetch_picture returning without the continue
TryFetchContinueLost ==
    /\ mpc = "continue"
    /\ contQ' = contQ
    /\ mpc' = "idle"
    /\ UNCHANGED <<reqQ, finQ, mailbox, current, loads, wpc, job, received, fetched>>
    /\ UNCHANGED notLoader

\* try_fetch_picture: send_to_thread_continue.send(())
TryFetchContinue ==
    /\ mpc = "continue"
    /\ contQ' = contQ + 1
    /\ mpc' = "idle"
    /\ UNCHANGED <<reqQ, finQ, mailbox, current, loads, wpc, job, received, fetched>>
    /\ UNCHANGED notLoader

\* worker: receive_on_thread_path.try_iter().last() finds a request
WorkerReceive ==
    /\ wpc = "recv"
    /\ reqQ # <<>>
    /\ job' = reqQ[Len(reqQ)]
    /\ reqQ' = <<>>
    /\ wpc' = "decode"
    /\ UNCHANGED <<finQ, contQ, mailbox, current, loads, mpc, received, fetched>>
    /\ UNCHANGED notLoader

\* the worker publishing the path of a job whose outcome it has not stored
WorkerStoreSkipped(ok) ==
    /\ wpc = "decode"
    /\ mailbox' = mailbox
    /\ wpc' = "publish"
    /\ UNCHANGED <<reqQ, finQ, contQ, current, loads, job, mpc, received, fetched>>
    /\ UNCHANGED notLoader

\* the worker thread ending on a decode error
WorkerStoreStopsOnError(ok) ==
    /\ wpc = "decode"
    /\ mailbox' = IF ok THEN Some(job, ok) ELSE mailbox
    /\ wpc' = IF ok THEN "publish" ELSE "stopped"
    /\ UNCHANGED <<reqQ, finQ, contQ, current, loads, job, mpc, received, fetched>>
    /\ UNCHANGED notLoader

\* worker: *picture_result.lock() = Some(open_picture(&filepath))
WorkerStore(ok) ==
    /\ wpc = "decode"
    /\ mailbox' = Some(job, ok)
    /\ wpc' = "publish"
    /\ UNCHANGED <<reqQ, finQ, contQ, current, loads, job, mpc, received, fetched>>
    /\ UNCHANGED notLoader

\* the worker looking for the next request right after publishing
WorkerPublishNoWait ==
    /\ wpc = "publish"
    /\ finQ' = Append(finQ, job)
    /\ wpc' = "recv"
    /\ UNCHANGED <<reqQ, contQ, mailbox, current, loads, job, mpc, received, fetched>>
    /\ UNCHANGED notLoader

\* worker: send_to_main_path.send(filepath)
WorkerPublish ==
    /\ wpc = "publish"
    /\ finQ' = Append(finQ, job)
    /\ wpc' = "wait"
    /\ UNCHANGED <<reqQ, contQ, mailbox, current, loads, job, mpc, received, fetched>>
    /\ UNCHANGED notLoader

\* the worker going on without the continue signal
WorkerContinueNoWait ==
    /\ wpc = "wait"
    /\ wpc' = "recv"
    /\ UNCHANGED <<reqQ, finQ, contQ, mailbox, current, loads, job, mpc, received, fetched>>
    /\ UNCHANGED notLoader

\* worker: receive_on_thread_continue.recv()
WorkerContinue ==
    /\ wpc = "wait"
    /\ contQ > 0
    /\ contQ' = contQ - 1
    /\ wpc' = "recv"
    /\ UNCHANGED <<reqQ, finQ, mailbox, current, loads, job, mpc, received, fetched>>
    /\ UNCHANGED notLoader

\* the decoder driven by set_filepath and try_fetch_picture alone
LoaderNext ==
    \/ \E p \in DecodePaths : SetFilepath(p) /\ UNCHANGED <<playerVars, seqVars>>
    \/ TryFetchReceive /\ UNCHANGED <<playerVars, seqVars>>
    \/ TryFetchContinue /\ UNCHANGED <<playerVars, seqVars>>
    \/ WorkerReceive /\ UNCHANGED <<playerVars, seqVars>>
    \/ \E ok \in BOOLEAN : WorkerStore(ok) /\ UNCHANGED <<playerVars, seqVars>>
    \/ WorkerPublish /\ UNCHANGED <<playerVars, seqVars>>
    \/ WorkerContinue /\ UNCHANGED <<playerVars, seqVars>>

\* ------------------------------------------------------------ player
\* Sample<D>: a decoded frame and the delay it declares; ok = FALSE is an
\* Err item of the frame iterator
Intervals == 0..MaxInterval
Samples == [interval : Intervals, ok : BOOLEAN]

\* the frame iterators a decoder can hand to StreamingPlayer::new
Animations == UNION {[1..n -> Samples] : n \in 1..MaxFrames}

NoPlayer == [on |-> FALSE, stash |-> <<>>, rest |-> <<>>, playhead |-> 0, interval |-> 0]

\* Option<PictureResult<frame>>: the frame is named by its place in the stash
NoFrame == [kind |-> "None", index |-> 0]
Frame(i) == [kind |-> "Frame", index |-> i]
FrameError(i) == [kind |-> "Error", index |-> i]

\* what the player has shown: since is the time since the frame yielded last
\* (since the player was made, before the first) and declared the interval
\* that frame declared; of the last call of next: called, the values waited
\* and needed that since and declared had when it started, the playhead it
\* started from, and first when no frame had been yielded before it
NoTick ==
    [called |-> FALSE, since |-> 0, declared |-> 0, waited |-> 0, needed |-> 0,
     playhead |-> 0, first |-> FALSE, shown |-> FALSE]

\* IteratorStasher::stash_next
StashNext(pl) ==
    IF pl.rest = <<>> THEN pl
    ELSE [pl EXCEPT !.stash = Append(pl.stash, Head(pl.rest)), !.rest = Tail(pl.rest)]

\* advance wrapping the playhead at the length the stash had before the pull
AdvanceWrapsEarly(pl) ==
    LET stashed == StashNext(pl)
    IN  [player |-> [stashed EXCEPT !.playhead = (pl.playhead + 1) % Len(pl.stash)],
         index |-> pl.playhead,
         entry |-> stashed.stash[pl.playhead + 1]]

\* IteratorLooper::advance: [player, index, entry]
Advance(pl) ==
    LET stashed == StashNext(pl)
    IN  [player |-> [stashed EXCEPT !.playhead = (pl.playhead + 1) % Len(stashed.stash)],
         index |-> pl.playhead,
         entry |-> stashed.stash[pl.playhead + 1]]

\* StreamingPlayer::new over the frames a, which are not none (IteratorLooper::new
\* answers ZeroFrames otherwise, and the decode fails)
StreamingPlayerNew(a) ==
    [on |-> TRUE, stash |-> <<a[1]>>, rest |-> Tail(a), playhead |-> 0, interval |-> 0]

\* next yielding as soon as any time has passed
StreamingPlayerNextNoInterval(pl, el) ==
    IF el >= 0
    THEN LET adv == Advance(pl)
         IN  IF adv.entry.ok
             THEN [player |-> [adv.player EXCEPT !.interval = adv.entry.interval],
                   elapsed |-> 0, item |-> Frame(adv.index)]
             ELSE [player |-> adv.player, elapsed |-> el, item |-> FrameError(adv.index)]
    ELSE [player |-> pl, elapsed |-> el, item |-> NoFrame]

\* StreamingPlayer::next, el the value of onset.elapsed(): [player, elapsed, item]
StreamingPlayerNext(pl, el) ==
    IF el >= pl.interval
    THEN LET adv == Advance(pl)
         IN  IF adv.entry.ok
             THEN [player |-> [adv.player EXCEPT !.interval = adv.entry.interval],
                   elapsed |-> 0, item |-> Frame(adv.index)]
             ELSE [player |-> adv.player, elapsed |-> el, item |-> FrameError(adv.index)]
    ELSE [player |-> pl, elapsed |-> el, item |-> NoFrame]

\* the record of a call of next that started from the player pl, after the
\* record t, and had the value r
Called(t, pl, r) ==
    [called |-> TRUE,
     since |-> IF r.item.kind = "Frame" THEN 0 ELSE t.since,
     declared |-> IF r.item.kind = "Frame"
                  THEN r.player.stash[r.item.index + 1].interval
                  ELSE t.declared,
     waited |-> t.since, needed |-> t.declared,
     playhead |-> pl.playhead, first |-> ~t.shown,
     shown |-> t.shown \/ r.item.kind = "Frame"]

PlayerInit ==
    /\ player = NoPlayer
    /\ elapsed = 0
    /\ frame = NoFrame
    /\ tick = NoTick

\* a picture is decoded as an animation
PlayerNew(a) ==
    /\ ~player.on
    /\ player' = StreamingPlayerNew(a)
    /\ elapsed' = 0
    /\ frame' = NoFrame
    /\ tick' = NoTick
    /\ UNCHANGED notPlayer

\* one call of next
PlayerNext ==
    /\ player.on
    /\ LET r == StreamingPlayerNext(player, elapsed)
       IN  /\ player' = r.player
           /\ elapsed' = r.elapsed
           /\ frame' = r.item
           /\ tick' = Called(tick, player, r)
    /\ UNCHANGED notPlayer

\* time passes
Tick ==
    /\ player.on
    /\ elapsed <= MaxInterval
    /\ elapsed' = elapsed + 1
    /\ tick' = [tick EXCEPT !.since = tick.since + 1]
    /\ UNCHANGED <<player, frame>>
    /\ UNCHANGED notPlayer

\* the picture is replaced
PlayerDrop ==
    /\ player.on
    /\ player' = NoPlayer
    /\ elapsed' = 0
    /\ frame' = NoFrame
    /\ tick' = NoTick
    /\ UNCHANGED notPlayer

PlayerStep ==
    \/ \E a \in Animations : PlayerNew(a)
    \/ PlayerNext
    \/ Tick
    \/ PlayerDrop

\* the navigator alone
\* ------------------------------------------------------------ sequencer
\* Option<PictureLoadState>; some is the Option inside PictureError, Loading
\* and FrameStreamer::Still; id is the request whose outcome was loaded
NoPicture == [state |-> "None", some |-> FALSE, motion |-> FALSE, id |-> 0]
PictureErrorState == [state |-> "PictureError", some |-> TRUE, motion |-> FALSE, id |-> 0]
LoadingState == [state |-> "Loading", some |-> TRUE, motion |-> FALSE, id |-> 0]
LoadedStill(id) == [state |-> "Loaded", some |-> TRUE, motion |-> FALSE, id |-> id]
LoadedMotion(id) == [state |-> "Loaded", some |-> FALSE, motion |-> TRUE, id |-> id]

\* Option<PictureLoadResult>; id is the request whose outcome the item comes
\* from, 0 for the items of the dimension probe
NoItem == [kind |-> "None", id |-> 0]
Item(k, id) == [kind |-> k, id |-> id]

\* Picture, as the sequencer is shown it: a still (no frames), an animation of
\* one frame without delay, and one of a delayed frame and a frame that fails
Pictures ==
    {<<>>,
     <<[interval |-> 0, ok |-> TRUE]>>,
     <<[interval |-> 1, ok |-> TRUE], [interval |-> 0, ok |-> FALSE]>>}

\* the record of what next yielded
Yield(item) ==
    /\ yielded' = item
    /\ items' = IF item.kind # "None" /\ Len(items) < 3 THEN Append(items, item.kind)
                ELSE items
    /\ errors' = IF item.kind = "PictureError" /\ errors < 2 THEN errors + 1 ELSE errors

\* FrameStreamer::next for Motion: the player's item, cloned
MotionItem(it, id, cloneOk) ==
    CASE it.kind = "None" -> NoItem
      [] it.kind = "Frame" -> Item(IF cloneOk THEN "Loaded" ELSE "PictureError", id)
      [] OTHER -> Item("PictureError", id)

\* PictureLoader::load; probe is the outcome of read_dimensions
Load(p, probe) ==
    /\ SetFilepath(p)
    /\ picture' = IF probe THEN LoadingState ELSE PictureErrorState
    /\ yielded' = NoItem
    /\ items' = <<>>
    /\ errors' = 0
    /\ player' = NoPlayer
    /\ elapsed' = 0
    /\ frame' = NoFrame
    /\ tick' = NoTick

\* next with no picture
NextNone ==
    /\ mpc = "idle"
    /\ picture.state = "None"
    /\ Yield(NoItem)
    /\ UNCHANGED <<picture, playerVars, loaderVars, notLoader>>

\* next: PictureLoadState::PictureError(error) => error.take()
NextPictureError ==
    /\ mpc = "idle"
    /\ picture.state = "PictureError"
    /\ Yield(IF picture.some THEN Item("PictureError", 0) ELSE NoItem)
    /\ picture' = [picture EXCEPT !.some = FALSE]
    /\ UNCHANGED <<playerVars, loaderVars, notLoader>>

\* next: PictureLoadState::Loading(dimensions), dimensions not yet taken
NextDimensions ==
    /\ mpc = "idle"
    /\ picture.state = "Loading"
    /\ picture.some
    /\ Yield(Item("Loading", 0))
    /\ picture' = [picture EXCEPT !.some = FALSE]
    /\ UNCHANGED <<playerVars, loaderVars, notLoader>>

\* next: PictureLoadState::Loading(None) => try_fetch_picture()?; pic is the
\* Picture of a successful outcome, which nothing reads before this call.  The
\* continue that try_fetch_picture sends before it returns is the next step of
\* the main thread (TryFetchContinue).
NextFetch(pic, cloneOk) ==
    /\ picture.state = "Loading"
    /\ ~picture.some
    /\ TryFetchReceive
    /\ IF mpc' = "panicked" \/ ~fetched'.some
       THEN /\ Yield(NoItem)
            /\ UNCHANGED <<picture, playerVars>>
       ELSE IF ~fetched'.ok
       THEN /\ Yield(Item("PictureError", fetched'.id))
            /\ UNCHANGED <<picture, playerVars>>
       ELSE IF pic = <<>>
       THEN /\ picture' = [LoadedStill(fetched'.id) EXCEPT !.some = FALSE]
            /\ Yield(Item("Loaded", fetched'.id))
            /\ UNCHANGED playerVars
       ELSE LET new == StreamingPlayerNew(pic)
                r == StreamingPlayerNext(new, 0)
            IN  /\ picture' = LoadedMotion(fetched'.id)
                /\ player' = r.player
                /\ elapsed' = r.elapsed
                /\ frame' = r.item
                /\ tick' = Called(NoTick, new, r)
                /\ Yield(MotionItem(r.item, fetched'.id, cloneOk))

\* the Loaded arm handing out the still without taking it
NextLoadedKeepsStill(cloneOk) ==
    /\ mpc = "idle"
    /\ picture.state = "Loaded"
    /\ IF picture.motion
       THEN LET r == StreamingPlayerNext(player, elapsed)
            IN  /\ player' = r.player
                /\ elapsed' = r.elapsed
                /\ frame' = r.item
                /\ tick' = Called(tick, player, r)
                /\ Yield(MotionItem(r.item, picture.id, cloneOk))
                /\ UNCHANGED picture
       ELSE /\ Yield(Item("Loaded", picture.id))
            /\ UNCHANGED <<picture, playerVars>>
    /\ UNCHANGED <<loaderVars, notLoader>>

\* next: PictureLoadState::Loaded(streamer) => streamer.next()
NextLoaded(cloneOk) ==
    /\ mpc = "idle"
    /\ picture.state = "Loaded"
    /\ IF picture.motion
       THEN LET r == StreamingPlayerNext(player, elapsed)
            IN  /\ player' = r.player
                /\ elapsed' = r.elapsed
                /\ frame' = r.item
                /\ tick' = Called(tick, player, r)
                /\ Yield(MotionItem(r.item, picture.id, cloneOk))
                /\ UNCHANGED picture
       ELSE /\ Yield(IF picture.some THEN Item("Loaded", picture.id) ELSE NoItem)
            /\ picture' = [picture EXCEPT !.some = FALSE]
            /\ UNCHANGED playerVars
    /\ UNCHANGED <<loaderVars, notLoader>>

\* PictureLoader, its decoder and the worker thread
SeqNext ==
    \/ \E p \in DecodePaths, probe \in BOOLEAN : Load(p, probe)
    \/ NextNone
    \/ NextPictureError
    \/ NextDimensions
    \/ \E pic \in Pictures, cloneOk \in BOOLEAN : NextFetch(pic, cloneOk)
    \/ \E cloneOk \in BOOLEAN : NextLoaded(cloneOk)
    \/ TryFetchContinue /\ UNCHANGED <<playerVars, seqVars>>
    \/ Tick
    \/ WorkerReceive /\ UNCHANGED <<playerVars, seqVars>>
    \/ \E ok \in BOOLEAN : WorkerStore(ok) /\ UNCHANGED <<playerVars, seqVars>>
    \/ WorkerPublish /\ UNCHANGED <<playerVars, seqVars>>
    \/ WorkerContinue /\ UNCHANGED <<playerVars, seqVars>>

SeqInit ==
    /\ picture = NoPicture
    /\ yielded = NoItem
    /\ items = <<>>
    /\ errors = 0

\* ------------------------------------------------------------ reader.rs
\* PictureDirectoryReader: a FilepathsNavigator and a PictureLoader.  Of the
\* last step of the reader, last keeps the operation alone, and of a message
\* whether it was a Rename of the selected path.
ReaderStep(op, ev) ==
    [NoStep EXCEPT !.op = op,
                   !.ev = IF ev.kind = "Rename" /\ ev.path = Selected(filepaths, cursor)
                          THEN Unit("Rename") ELSE NoEvent]

\* what from_path can return: the directories, the paths and the failures
\* of read_dir and of the watcher it can meet
FromPathResults ==
    {FromPathResult(f, p, io, ne) :
        f \in Directories, p \in Paths, io \in BOOLEAN, ne \in BOOLEAN}

\* PictureLoader::load of the reader's loader: set_filepath sends the path and
\* makes it the current path; probe is the outcome of read_dimensions
ReaderLoad(p, probe) ==
    /\ loads < MaxLoads
    /\ loads' = loads + 1
    /\ reqQ' = Append(reqQ, [path |-> p, id |-> loads + 1])
    /\ current' = [path |-> p, id |-> loads + 1]
    /\ picture' = IF probe THEN LoadingState ELSE PictureErrorState
    /\ yielded' = NoItem
    /\ items' = <<>>
    /\ errors' = 0
    /\ UNCHANGED <<finQ, contQ, mailbox, wpc, job, mpc, received, fetched>>
    /\ UNCHANGED playerVars

\* what rescan can return for each selected path, which is all that rescan
\* reads of the navigator: the directories and the failures of read_dir it
\* can meet
RescanResults ==
    [selected \in Names |->
        {RescanResult(f, <<selected>>, 0, io) : f \in Directories, io \in BOOLEAN}]

\* no rescan is due
NoRescan == [err |-> "None", path |-> NoPath, filepaths |-> <<>>, cursor |-> 0]

RescanOutcomes == UNION {RescanResults[n] : n \in Names} \cup {NoRescan}

\* the end of navigator.refresh(): `if rescan { self.rescan()? }`, scanned
\* being what rescan returns
RefreshResult(list, c, scanned) ==
    IF scanned = NoRescan
    THEN [err |-> "Ok", path |-> NoPath, filepaths |-> list, cursor |-> c]
    ELSE scanned

\* the loader is not called
ReaderKeeps == UNCHANGED <<loaderVars, playerVars, seqVars>>

\* PictureDirectoryReader::new (there is no reader yet) and change_path, r
\* being what from_path returns: on Err there is no reader any more
ReaderFromPath(r, probe) ==
    /\ nav \in {"none", "ready"}
    /\ r \in FromPathResults
    /\ nav' = IF r.err = "Ok" THEN "ready" ELSE "failed"
    /\ filepaths' = r.list
    /\ cursor' = r.cursor
    /\ result' = IF r.err = "Ok" THEN Ok(FALSE) ELSE Err(r.err, r.path)
    /\ r.err # "Ok" => probe
    /\ IF r.err = "Ok" THEN ReaderLoad(Selected(r.list, r.cursor), probe)
       ELSE ReaderKeeps
    /\ last' = ReaderStep(IF nav = "none" THEN "new" ELSE "change_path", NoEvent)
    /\ quiet' = NotQuiet
    /\ dirty' = FALSE
    /\ rescan' = FALSE
    /\ processed' = 0
    /\ UNCHANGED <<ifaceVars, appVars>>

\* PictureDirectoryReader::navigate
ReaderNavigate(direction, probe) ==
    /\ nav = "ready"
    /\ cursor' = NavigateCursor(cursor, Len(filepaths), direction)
    /\ ReaderLoad(Selected(filepaths, cursor'), probe)
    /\ result' = Ok(FALSE)
    /\ last' = ReaderStep("navigate", NoEvent)
    /\ UNCHANGED <<nav, filepaths, dirty, rescan, processed, quiet>>
    /\ UNCHANGED <<ifaceVars, appVars>>

\* refresh_filepaths: navigator.refresh() drains the messages
ReaderRefreshBegin ==
    /\ nav = "ready"
    /\ nav' = "refreshing"
    /\ dirty' = FALSE
    /\ rescan' = FALSE
    /\ processed' = 0
    /\ last' = ReaderStep("begin", NoEvent)
    /\ UNCHANGED <<filepaths, cursor, result, quiet>>
    /\ ReaderKeeps
    /\ UNCHANGED <<ifaceVars, appVars>>

\* refresh_filepaths: one turn of the loop of navigator.refresh()
ReaderRefreshEvent(ev) ==
    /\ nav = "refreshing"
    /\ processed < MaxBatch
    /\ LET m == MatchReceived(filepaths, cursor, dirty, rescan, ev)
       IN  /\ filepaths' = IF m.err = "Ok" THEN m.filepaths ELSE <<>>
           /\ cursor' = IF m.err = "Ok" THEN m.cursor ELSE 0
           /\ dirty' = (m.err = "Ok" /\ m.dirty)
           /\ rescan' = (m.err = "Ok" /\ m.rescan)
           /\ nav' = IF m.err = "Ok" THEN "refreshing" ELSE "failed"
           /\ result' = IF m.err = "Ok" THEN result ELSE Err(m.err, NoPath)
           /\ processed' = IF m.err = "Ok" THEN processed + 1 ELSE 0
    /\ last' = ReaderStep("event", ev)
    /\ UNCHANGED quiet
    /\ ReaderKeeps
    /\ UNCHANGED <<ifaceVars, appVars>>

\* refresh_filepaths that never calls load
ReaderRefreshEndNeverLoads(scanned, probe) ==
    /\ nav = "refreshing"
    /\ IF rescan THEN scanned \in RescanResults[Selected(filepaths, cursor)]
       ELSE scanned = NoRescan
    /\ probe
    /\ LET r == RefreshResult(filepaths, cursor, scanned)
       IN  /\ filepaths' = IF r.err = "Ok" THEN r.filepaths ELSE <<>>
           /\ cursor' = IF r.err = "Ok" THEN r.cursor ELSE 0
           /\ nav' = IF r.err = "Ok" THEN "ready" ELSE "failed"
           /\ result' = IF r.err = "Ok" THEN Ok(dirty) ELSE Err(r.err, r.path)
           /\ ReaderKeeps
    /\ last' = ReaderStep("refresh_filepaths", NoEvent)
    /\ dirty' = FALSE
    /\ rescan' = FALSE
    /\ processed' = 0
    /\ UNCHANGED quiet
    /\ UNCHANGED <<ifaceVars, appVars>>

\* refresh_filepaths: the end of navigator.refresh(), and the load of the
\* selected path when the refresh reports dirty
ReaderRefreshEnd(scanned, probe) ==
    /\ nav = "refreshing"
    /\ IF rescan THEN scanned \in RescanResults[Selected(filepaths, cursor)]
       ELSE scanned = NoRescan
    /\ LET r == RefreshResult(filepaths, cursor, scanned)
       IN  /\ filepaths' = IF r.err = "Ok" THEN r.filepaths ELSE <<>>
           /\ cursor' = IF r.err = "Ok" THEN r.cursor ELSE 0
           /\ nav' = IF r.err = "Ok" THEN "ready" ELSE "failed"
           /\ result' = IF r.err = "Ok" THEN Ok(dirty) ELSE Err(r.err, r.path)
           /\ ~(r.err = "Ok" /\ dirty) => probe
           /\ IF r.err = "Ok" /\ dirty
              THEN ReaderLoad(Selected(r.filepaths, r.cursor), probe)
              ELSE ReaderKeeps
    /\ last' = ReaderStep("refresh_filepaths", NoEvent)
    /\ dirty' = FALSE
    /\ rescan' = FALSE
    /\ processed' = 0
    /\ UNCHANGED quiet
    /\ UNCHANGED <<ifaceVars, appVars>>

\* the reader and the watch events of its directory
ReaderNext ==
    \/ \E r \in FromPathResults, probe \in BOOLEAN : ReaderFromPath(r, probe)
    \/ \E d \in Directions, probe \in BOOLEAN : ReaderNavigate(d, probe)
    \/ ReaderRefreshBegin
    \/ \E ev \in Events : ReaderRefreshEvent(ev)
    \/ \E scanned \in RescanOutcomes, probe \in BOOLEAN : ReaderRefreshEnd(scanned, probe)

\* ------------------------------------------------------------ interface.rs
\* f64 values are exact fractions n/d, d > 0, in lowest terms
RECURSIVE Gcd(_, _)
Gcd(a, b) == IF b = 0 THEN a ELSE Gcd(b, a % b)

Abs(a) == IF a < 0 THEN 0 - a ELSE a

Frac(n, d) ==
    LET g == Gcd(Abs(n), d)
    IN  [n |-> IF n < 0 THEN 0 - (Abs(n) \div g) ELSE n \div g, d |-> d \div g]

Whole(k) == [n |-> k, d |-> 1]
Add(a, b) == Frac(a.n * b.d + b.n * a.d, a.d * b.d)
Sub(a, b) == Frac(a.n * b.d - b.n * a.d, a.d * b.d)
Mul(a, b) == Frac(a.n * b.n, a.d * b.d)
\* a / b for b > 0
Div(a, b) == Frac(a.n * b.d, a.d * b.n)
Less(a, b) == a.n * b.d < b.n * a.d

\* f64::round: to the nearest integer, halves away from zero
Round(a) ==
    LET q == Abs(a.n) \div a.d
        r == Abs(a.n) % a.d
        m == IF 2 * r >= a.d THEN q + 1 ELSE q
    IN  IF a.n < 0 THEN 0 - m ELSE m

\* `as u32` of an f64: toward zero, and 0 for a negative value
AsU32(a) == IF a.n < 0 THEN 0 ELSE a.n \div a.d

MIN_WINDOW_SIZE == 100
ZOOM_SPEED == Frac(3, 1000)

\* GLViewport
Viewport(o, s) == [origin |-> o, size |-> s]
\* the outer position and outer size of the main window
Window(o, s) == [origin |-> o, size |-> s]

\* GLWindow::get_center
GetCenter(win) ==
    <<win.origin[1] + Round(Frac(win.size[1], 2)),
      win.origin[2] + Round(Frac(win.size[2], 2))>>

\* position_size_next: fitted once the window is larger than 0.8 of the screen
Fit(screen, size) ==
    IF 5 * size[1] > 4 * screen[1] \/ 5 * size[2] > 4 * screen[2]
    THEN IF screen[1] * size[2] > size[1] * screen[2]
         THEN <<Frac(4 * size[1] * screen[2], 5 * size[2]), Frac(4 * screen[2], 5)>>
         ELSE <<Frac(4 * screen[1], 5), Frac(4 * size[2] * screen[1], 5 * size[1])>>
    ELSE <<Whole(size[1]), Whole(size[2])>>

\* position_size_next: fitted once it is scaled up to MIN_WINDOW_SIZE
AtLeastMin(size, fitted) ==
    IF Less(fitted[1], Whole(MIN_WINDOW_SIZE)) \/ Less(fitted[2], Whole(MIN_WINDOW_SIZE))
    THEN LET scale == IF size[1] > size[2]
                      THEN Div(Whole(MIN_WINDOW_SIZE), fitted[1])
                      ELSE Div(Whole(MIN_WINDOW_SIZE), fitted[2])
         IN  <<Mul(fitted[1], scale), Mul(fitted[2], scale)>>
    ELSE fitted

\* InterfaceRenderer::position_size_next, every window-system call succeeding:
\* the window and the viewport it leaves
PositionSizeNext(win, screen, target) ==
    LET previous_center == GetCenter(win)
        fitted == AtLeastMin(target, Fit(screen, target))
        size == <<Round(fitted[1]), Round(fitted[2])>>
        new_center == GetCenter(Window(win.origin, size))
        position == <<win.origin[1] - (new_center[1] - previous_center[1]),
                      win.origin[2] - (new_center[2] - previous_center[2])>>
    IN  [window |-> Window(position, size),
         viewport |-> Viewport(<<0, 0>>, <<AsU32(fitted[1]), AsU32(fitted[2])>>)]

\* ZoomInteraction, and the value of the field while there is none
NoZoom ==
    [some |-> FALSE, cursor_captured |-> <<0, 0>>, window_origin_captured |-> <<0, 0>>,
     window_size_captured |-> <<0, 0>>, screen_size_captured |-> <<0, 0>>,
     zoom_bounds |-> <<Whole(0), Whole(0)>>]

\* ZoomInteraction::cursor_to_screen_space
CursorToScreenSpace(win, cur) == <<cur[1] + win.origin[1], cur[2] + win.origin[2]>>

\* ZoomInteraction::new
ZoomInteractionNew(win, screen, cur) ==
    [some |-> TRUE,
     cursor_captured |-> CursorToScreenSpace(win, cur),
     window_origin_captured |-> win.origin,
     window_size_captured |-> win.size,
     screen_size_captured |-> screen,
     zoom_bounds |->
        <<IF win.size[1] > win.size[2]
          THEN Frac(MIN_WINDOW_SIZE, win.size[1])
          ELSE Frac(MIN_WINDOW_SIZE, win.size[2]),
          IF screen[1] * win.size[2] > win.size[1] * screen[2]
          THEN Frac(screen[2], win.size[2])
          ELSE Frac(screen[1], win.size[1])>>]

\* compute_viewport: the factor of one axis
Factor(delta) ==
    IF delta.n < 0 THEN Div(Whole(1), Sub(Whole(1), delta)) ELSE Add(Whole(1), delta)

\* Clamp, but without the upper bound
ClampBelow(v, min, max) == IF Less(v, min) THEN min ELSE v

\* f64::clamp, which panics when min > max
Clamp(v, min, max) == IF Less(v, min) THEN min ELSE IF Less(max, v) THEN max ELSE v

\* compute_viewport: zoom
Zoom(z, cur) ==
    Clamp(Mul(Factor(Mul(Whole(cur[1] - z.cursor_captured[1]), ZOOM_SPEED)),
              Factor(Mul(Whole(0 - (cur[2] - z.cursor_captured[2])), ZOOM_SPEED))),
          z.zoom_bounds[1], z.zoom_bounds[2])

\* ComputeViewport, but the vertical coordinate is not converted
ComputeViewportNoFlip(z, win, position) ==
    LET cur == CursorToScreenSpace(win, position)
        zm == Zoom(z, cur)
        ox == Round(Add(Mul(Whole(z.window_origin_captured[1] - z.cursor_captured[1]), zm),
                        Whole(z.cursor_captured[1])))
        oy == Round(Add(Mul(Whole(z.window_origin_captured[2] - z.cursor_captured[2]), zm),
                        Whole(z.cursor_captured[2])))
        w == Round(Mul(Whole(z.window_size_captured[1]), zm))
        h == Round(Mul(Whole(z.window_size_captured[2]), zm))
    IN  Viewport(<<ox, oy>>, <<w, h>>)

\* ZoomInteraction::compute_viewport
ComputeViewport(z, win, position) ==
    LET cur == CursorToScreenSpace(win, position)
        zm == Zoom(z, cur)
        ox == Round(Add(Mul(Whole(z.window_origin_captured[1] - z.cursor_captured[1]), zm),
                        Whole(z.cursor_captured[1])))
        oy == Round(Add(Mul(Whole(z.window_origin_captured[2] - z.cursor_captured[2]), zm),
                        Whole(z.cursor_captured[2])))
        w == Round(Mul(Whole(z.window_size_captured[1]), zm))
        h == Round(Mul(Whole(z.window_size_captured[2]), zm))
    IN  Viewport(<<ox, z.screen_size_captured[2] - (oy + h)>>, <<w, h>>)

\* ZoomEnter, but the viewport is placed at the origin of the window as it is,
\* measured from the top of the screen
ZoomEnterNoFlip(z, win) ==
    [viewport |-> Viewport(win.origin, z.window_size_captured),
     window |-> Window(<<0, 0>>, z.screen_size_captured)]

\* TryFrom<InteractionMachine<NoInteraction>> for InteractionMachine<ZoomInteraction>:
\* the viewport and the window it leaves
ZoomEnter(z, win) ==
    [viewport |-> Viewport(<<win.origin[1],
                             z.screen_size_captured[2]
                                 - (win.origin[2] + z.window_size_captured[2])>>,
                           z.window_size_captured),
     window |-> Window(<<0, 0>>, z.screen_size_captured)]

\* ZoomExit, but the vertical coordinate is not converted
ZoomExitNoFlip(z, vp) ==
    [window |-> Window(vp.origin, vp.size), viewport |-> Viewport(<<0, 0>>, vp.size)]

\* From<InteractionMachine<ZoomInteraction>> for InteractionMachine<NoInteraction>:
\* the window and the viewport it leaves
ZoomExit(z, vp) ==
    [window |-> Window(<<vp.origin[1],
                         z.screen_size_captured[2] - (vp.origin[2] + vp.size[2])>>,
                       vp.size),
     viewport |-> Viewport(<<0, 0>>, vp.size)]

\* winit::event::WindowEvent, as far as refresh tells events apart
WindowEvent(k, p, s, b) == [kind |-> k, position |-> p, state |-> s, button |-> b]

\* the positions CursorMoved reports
Positions == {<<60, 40>>}

WindowEvents ==
    {WindowEvent("ScaleFactorChanged", <<0, 0>>, "", ""), WindowEvent("Focused", <<0, 0>>, "", "")}
    \cup {WindowEvent("CursorMoved", p, "", "") : p \in Positions}
    \cup {WindowEvent("MouseInput", <<0, 0>>, s, b) :
             s \in {"Pressed", "Released"}, b \in {"Left", "Right", "Middle"}}

\* the monitors, the sizes of the pictures and of the error boxes, the window
\* winit builds, and where the window system drops a dragged window
Screens == {<<400, 300>>}
Dimensions == {<<160, 120>>, <<640, 640>>}
ErrorBoxes == {<<180, 110>>}
BuiltWindows == {Window(<<40, 30>>, <<200, 150>>)}
Drops == {<<100, 50>>}

Live == {"DisabledInteraction", "NoInteraction", "DragInteraction", "ZoomInteraction"}

\* a call on the interface: the operation, the event without its position,
\* the interaction it starts from, whether it calls drag, and the steps of a
\* show_picture that failed
Call(name, e) ==
    [name |-> name, event |-> [e EXCEPT !.position = <<0, 0>>], from |-> interaction,
     drag |-> FALSE, failed |-> {}]

NoWindowEvent == WindowEvent("", <<0, 0>>, "", "")
NoCall ==
    [name |-> "", event |-> NoWindowEvent, from |-> "None", drag |-> FALSE,
     failed |-> {}]

\* before Interface::new
NoInterface ==
    /\ interaction = "None"
    /\ mode = "Blank"
    /\ window = Window(<<0, 0>>, <<0, 0>>)
    /\ viewport = Viewport(<<0, 0>>, <<0, 0>>)
    /\ pointer = <<0, 0>>
    /\ zoom = NoZoom
    /\ platform = [origin |-> FALSE, screen |-> <<0, 0>>]
    /\ zooms = 0
    /\ call = NoCall

\* Interface::new, on a window system that supports outer_position or does not
InterfaceNew(supported, screen, built) ==
    /\ interaction = "DisabledInteraction"
    /\ mode = "Blank"
    /\ window = built
    /\ viewport = Viewport(<<0, 0>>, <<0, 0>>)
    /\ pointer = <<0, 0>>
    /\ zoom = NoZoom
    /\ platform = [origin |-> supported, screen |-> screen]
    /\ zooms = 0
    /\ call = NoCall

\* a call returns Err or panics: the machine was moved into the call, and its
\* windows are dropped with it
Dropped(how) ==
    /\ interaction' = how
    /\ mode' = "Blank"
    /\ window' = Window(<<0, 0>>, <<0, 0>>)
    /\ viewport' = Viewport(<<0, 0>>, <<0, 0>>)
    /\ pointer' = <<0, 0>>
    /\ zoom' = NoZoom
    /\ zooms' = 0

\* DisabledRefresh, but a left press starts a drag
DisabledRefreshDrags(e) ==
    /\ interaction = "DisabledInteraction"
    /\ pointer' = IF e.kind = "CursorMoved" THEN e.position ELSE pointer
    /\ interaction' = IF e.kind = "MouseInput" /\ e.state = "Pressed" /\ e.button = "Left"
                      THEN "DragInteraction" ELSE interaction
    /\ call' = Call("refresh", e)
    /\ UNCHANGED <<mode, window, viewport, zoom, platform, zooms>>
    /\ UNCHANGED notInterface

\* InteractionMachine<DisabledInteraction>::refresh
DisabledRefresh(e) ==
    /\ interaction = "DisabledInteraction"
    /\ pointer' = IF e.kind = "CursorMoved" THEN e.position ELSE pointer
    /\ call' = Call("refresh", e)
    /\ UNCHANGED <<interaction, mode, window, viewport, zoom, platform, zooms>>
    /\ UNCHANGED notInterface

LeftPress(e) == e.kind = "MouseInput" /\ e.state = "Pressed" /\ e.button = "Left"
RightPress(e) == e.kind = "MouseInput" /\ e.state = "Pressed" /\ e.button = "Right"
LeftRelease(e) == e.kind = "MouseInput" /\ e.state = "Released" /\ e.button = "Left"
RightRelease(e) == e.kind = "MouseInput" /\ e.state = "Released" /\ e.button = "Right"

\* NoInteractionRefresh, but a press on the error display is ignored
NoInteractionRefreshNotOnError(e, dragOk, monitor) ==
    /\ interaction = "NoInteraction"
    /\ ~LeftPress(e) => dragOk
    /\ ~RightPress(e) => monitor
    /\ RightPress(e) => zooms < MaxZooms
    /\ call' = [Call("refresh", e) EXCEPT !.drag = LeftPress(e) /\ mode # "Error"]
    /\ IF LeftPress(e) /\ mode # "Error"
       THEN IF dragOk
            THEN /\ interaction' = "DragInteraction"
                 /\ UNCHANGED <<mode, window, viewport, pointer, zoom, zooms>>
            ELSE Dropped("Err")
       ELSE IF RightPress(e) /\ mode # "Error"
       THEN IF platform.origin /\ monitor
            THEN LET z == ZoomInteractionNew(window, platform.screen, pointer)
                     entered == ZoomEnter(z, window)
                 IN  /\ interaction' = "ZoomInteraction"
                     /\ zoom' = z
                     /\ viewport' = entered.viewport
                     /\ window' = entered.window
                     /\ zooms' = zooms + 1
                     /\ UNCHANGED <<mode, pointer>>
            ELSE Dropped("Err")
       ELSE /\ pointer' = IF e.kind = "CursorMoved" THEN e.position ELSE pointer
            /\ UNCHANGED <<interaction, mode, window, viewport, zoom, zooms>>
    /\ UNCHANGED platform
    /\ UNCHANGED notInterface

\* InteractionMachine<NoInteraction>::refresh; drag_window succeeds or fails
\* (asked on a left press), the current monitor is detected or not (asked on
\* a right press)
NoInteractionRefresh(e, dragOk, monitor) ==
    /\ interaction = "NoInteraction"
    /\ ~LeftPress(e) => dragOk
    /\ ~RightPress(e) => monitor
    /\ RightPress(e) => zooms < MaxZooms
    /\ call' = [Call("refresh", e) EXCEPT !.drag = LeftPress(e)]
    /\ IF LeftPress(e)
       THEN IF dragOk
            THEN /\ interaction' = "DragInteraction"
                 /\ UNCHANGED <<mode, window, viewport, pointer, zoom, zooms>>
            ELSE Dropped("Err")
       ELSE IF RightPress(e)
       THEN IF platform.origin /\ monitor
            THEN LET z == ZoomInteractionNew(window, platform.screen, pointer)
                     entered == ZoomEnter(z, window)
                 IN  /\ interaction' = "ZoomInteraction"
                     /\ zoom' = z
                     /\ viewport' = entered.viewport
                     /\ window' = entered.window
                     /\ zooms' = zooms + 1
                     /\ UNCHANGED <<mode, pointer>>
            ELSE Dropped("Err")
       ELSE /\ pointer' = IF e.kind = "CursorMoved" THEN e.position ELSE pointer
            /\ UNCHANGED <<interaction, mode, window, viewport, zoom, zooms>>
    /\ UNCHANGED platform
    /\ UNCHANGED notInterface

\* the drag ending on the release of either button
DragRefreshAnyRelease(e) ==
    /\ interaction = "DragInteraction"
    /\ pointer' = IF e.kind = "CursorMoved" THEN e.position ELSE pointer
    /\ interaction' = IF LeftRelease(e) \/ RightRelease(e) THEN "NoInteraction"
                      ELSE interaction
    /\ call' = Call("refresh", e)
    /\ UNCHANGED <<mode, window, viewport, zoom, platform, zooms>>
    /\ UNCHANGED notInterface

\* InteractionMachine<DragInteraction>::refresh
DragRefresh(e) ==
    /\ interaction = "DragInteraction"
    /\ pointer' = IF e.kind = "CursorMoved" THEN e.position ELSE pointer
    /\ interaction' = IF LeftRelease(e) THEN "NoInteraction" ELSE interaction
    /\ call' = Call("refresh", e)
    /\ UNCHANGED <<mode, window, viewport, zoom, platform, zooms>>
    /\ UNCHANGED notInterface

\* Window::drag_window: the window system moves the window with the cursor
\* while the button is held
WindowMoved(o) ==
    /\ interaction = "DragInteraction"
    /\ window.origin # o
    /\ window' = Window(o, window.size)
    /\ UNCHANGED <<interaction, mode, viewport, pointer, zoom, platform, zooms, call>>
    /\ UNCHANGED notInterface

\* InteractionMachine<ZoomInteraction>::refresh
ZoomRefresh(e) ==
    /\ interaction = "ZoomInteraction"
    /\ call' = Call("refresh", e)
    /\ IF e.kind = "ScaleFactorChanged" \/ RightRelease(e)
       THEN LET left == ZoomExit(zoom, viewport)
            IN  /\ interaction' = "NoInteraction"
                /\ window' = left.window
                /\ viewport' = left.viewport
                /\ zoom' = NoZoom
                /\ UNCHANGED <<mode, pointer, zooms>>
       ELSE IF e.kind = "CursorMoved"
       THEN IF ~platform.origin
            THEN Dropped("Err")
            ELSE IF Less(zoom.zoom_bounds[2], zoom.zoom_bounds[1])
            THEN Dropped("Panicked")
            ELSE /\ pointer' = e.position
                 /\ viewport' = ComputeViewport(zoom, window, e.position)
                 /\ UNCHANGED <<interaction, mode, window, zoom, zooms>>
       ELSE UNCHANGED <<interaction, mode, window, viewport, pointer, zoom, zooms>>
    /\ UNCHANGED platform
    /\ UNCHANGED notInterface

\* InterfaceEnum::refresh
Refresh(e) ==
    \/ DisabledRefresh(e)
    \/ \E dragOk, monitor \in BOOLEAN : NoInteractionRefresh(e, dragOk, monitor)
    \/ DragRefresh(e)
    \/ ZoomRefresh(e)

\* Shown, but a zoom is not ended
ShownInZoom(m, target) ==
    LET next == PositionSizeNext(window, platform.screen, target)
    IN  /\ interaction' = IF interaction = "DisabledInteraction"
                          THEN "NoInteraction" ELSE interaction
        /\ mode' = m
        /\ window' = next.window
        /\ viewport' = next.viewport
        /\ UNCHANGED <<pointer, zoom, zooms>>

\* show_blank and show_error of the four machines, every call succeeding: from
\* ZoomInteraction the machine is converted into NoInteraction first, then the
\* mode is set and position_size_next called
Shown(m, target) ==
    LET left == IF interaction = "ZoomInteraction"
                THEN ZoomExit(zoom, viewport)
                ELSE [window |-> window, viewport |-> viewport]
        next == PositionSizeNext(left.window, platform.screen, target)
    IN  /\ interaction' = IF interaction = "DragInteraction"
                          THEN "DragInteraction" ELSE "NoInteraction"
        /\ mode' = m
        /\ window' = next.window
        /\ viewport' = next.viewport
        /\ zoom' = NoZoom
        /\ UNCHANGED <<pointer, zooms>>

\* InterfaceEnum::show_blank; position_size_next fails at get_center or at
\* get_screen_size
ShowBlank(dimensions, monitor) ==
    /\ interaction \in Live
    /\ call' = Call("show_blank", NoWindowEvent)
    /\ IF platform.origin /\ monitor THEN Shown("Blank", dimensions) ELSE Dropped("Err")
    /\ UNCHANGED platform
    /\ UNCHANGED notInterface

\* InterfaceEnum::show_error
ShowError(box, monitor) ==
    /\ interaction \in Live
    /\ call' = Call("show_error", NoWindowEvent)
    /\ IF platform.origin /\ monitor THEN Shown("Error", box) ELSE Dropped("Err")
    /\ UNCHANGED platform
    /\ UNCHANGED notInterface

\* ShowPicture, but a failure of transform_to_icc is returned to the caller
ShowPicturePropagates(iccOk, box, monitor) ==
    /\ interaction \in Live
    /\ iccOk => monitor
    /\ call' = [Call("show_picture", NoWindowEvent) EXCEPT
                    !.failed = IF iccOk THEN {} ELSE {"transform_to_icc"}]
    /\ IF iccOk
       THEN /\ interaction' = IF interaction = "DisabledInteraction"
                              THEN "NoInteraction" ELSE interaction
            /\ mode' = "Picture"
            /\ UNCHANGED <<window, viewport, pointer, zoom, zooms>>
       ELSE Dropped("Err")
    /\ UNCHANGED platform
    /\ UNCHANGED notInterface

\* InterfaceEnum::show_picture: transform_to_icc succeeds, or fails and the
\* error is shown
ShowPicture(iccOk, box, monitor) ==
    /\ interaction \in Live
    /\ iccOk => monitor
    /\ call' = [Call("show_picture", NoWindowEvent) EXCEPT
                    !.failed = IF iccOk THEN {}
                               ELSE IF platform.origin /\ monitor
                               THEN {"transform_to_icc"}
                               ELSE {"transform_to_icc", "show_error"}]
    /\ IF iccOk
       THEN /\ interaction' = IF interaction = "DisabledInteraction"
                              THEN "NoInteraction" ELSE interaction
            /\ mode' = "Picture"
            /\ UNCHANGED <<window, viewport, pointer, zoom, zooms>>
       ELSE IF platform.origin /\ monitor THEN Shown("Error", box) ELSE Dropped("Err")
    /\ UNCHANGED platform
    /\ UNCHANGED notInterface

\* DisableInteraction, but a drag is ended like any other interaction
DisableInteractionEndsDrag ==
    /\ interaction \in Live
    /\ call' = Call("disable_interaction", NoWindowEvent)
    /\ IF interaction = "ZoomInteraction"
       THEN LET left == ZoomExit(zoom, viewport)
            IN  /\ interaction' = "DisabledInteraction"
                /\ window' = left.window
                /\ viewport' = left.viewport
                /\ zoom' = NoZoom
                /\ UNCHANGED <<mode, pointer, zooms>>
       ELSE /\ interaction' = "DisabledInteraction"
            /\ UNCHANGED <<mode, window, viewport, pointer, zoom, zooms>>
    /\ UNCHANGED platform
    /\ UNCHANGED notInterface

\* InterfaceEnum::disable_interaction
DisableInteraction ==
    /\ interaction \in Live
    /\ call' = Call("disable_interaction", NoWindowEvent)
    /\ IF interaction = "DragInteraction"
       THEN Dropped("Panicked")
       ELSE IF interaction = "ZoomInteraction"
       THEN LET left == ZoomExit(zoom, viewport)
            IN  /\ interaction' = "DisabledInteraction"
                /\ window' = left.window
                /\ viewport' = left.viewport
                /\ zoom' = NoZoom
                /\ UNCHANGED <<mode, pointer, zooms>>
       ELSE /\ interaction' = "DisabledInteraction"
            /\ UNCHANGED <<mode, window, viewport, pointer, zoom, zooms>>
    /\ UNCHANGED platform
    /\ UNCHANGED notInterface

InterfaceNext ==
    \/ \E e \in WindowEvents : DisabledRefresh(e)
    \/ \E e \in WindowEvents : \E dragOk, monitor \in BOOLEAN :
           NoInteractionRefresh(e, dragOk, monitor)
    \/ \E e \in WindowEvents : DragRefresh(e)
    \/ \E e \in WindowEvents : ZoomRefresh(e)
    \/ \E o \in Drops : WindowMoved(o)
    \/ \E d \in Dimensions : \E monitor \in BOOLEAN : ShowBlank(d, monitor)
    \/ \E b \in ErrorBoxes : \E monitor \in BOOLEAN : ShowError(b, monitor)
    \/ \E iccOk \in BOOLEAN : \E b \in ErrorBoxes : \E monitor \in BOOLEAN :
           ShowPicture(iccOk, b, monitor)
    \/ DisableInteraction

\* ------------------------------------------------------------ app.rs
REFRESH_RATE == 125

\* AppState; entries is the path LiveNavigator::selected gives, timer the
\* milliseconds since the Instant of Idle, motion the variant of the Picture
AppState(tag, entries, timer, motion) ==
    [tag |-> tag, entries |-> entries, timer |-> timer, motion |-> motion]
StateInit == AppState("Init", NoPath, 0, FALSE)
StateIdle(entries, timer) == AppState("Idle", entries, timer, FALSE)
StateLoading(entries) == AppState("Loading", entries, 0, FALSE)
StateDrawing(entries, motion) == AppState("Drawing", entries, 0, motion)
StateDisabled == AppState("Disabled", NoPath, 0, FALSE)

\* what a handler leaves: the state, the interaction, the mode of the window
\* and the path sent to the worker (NoPath: none)
Left(s, i, m, sent) == [state |-> s, interaction |-> i, mode |-> m, sent |-> sent]

\* show_error_box(.., true), and main's answer to an Err of refresh: the
\* process exits; a panic
Exited(m) == Left(AppState("Exited", NoPath, 0, FALSE), "Unavailable", m, NoPath)
AppPanicked == Left(AppState("Panicked", NoPath, 0, FALSE), "Unavailable", mode, NoPath)

\* WindowInteraction::unavailable_to_none
UnavailableToNone(i) == IF i = "Unavailable" THEN "None" ELSE i

\* the match that ends a zoom before an error or a blank is shown: end_zoom
\* leaves Unavailable
EndZoom(i) == IF i = "Zoom" THEN "Unavailable" ELSE i

\* App::show_error; monitor: position_size_next finds the window's monitor
AppShowError(next, i, monitor) ==
    IF monitor THEN Left(next, i, "Error", NoPath) ELSE Exited("Error")

\* App::show_blank; probe is the outcome of read_dimensions
AppShowBlank(entries, i, probe, monitor) ==
    IF ~probe THEN AppShowError(StateIdle(entries, 0), i, monitor)
    ELSE IF monitor THEN Left(StateLoading(entries), i, "Blank", entries)
    ELSE Exited("Blank")

NoHandled == [name |-> "None", turn |-> 0, refreshed |-> ""]

\* a call of the driver ends: what it leaves is written, the path is sent
\* (send_to_thread_path carries the path alone: the requests are not numbered)
Handle(name, refreshed, left) ==
    /\ state' = left.state
    /\ windowInteraction' = left.interaction
    /\ mode' = left.mode
    /\ handled' = [name |-> name, turn |-> 1 - handled.turn, refreshed |-> refreshed]
    /\ IF left.sent # NoPath
       THEN /\ Len(reqQ) < MaxQueued
            /\ reqQ' = Append(reqQ, [path |-> left.sent, id |-> 0])
       ELSE UNCHANGED reqQ
    /\ UNCHANGED <<current, loads, wpc, job, mpc, received, fetched>>
    /\ UNCHANGED notApp

Running == state.tag \in {"Init", "Idle", "Loading", "Drawing", "Disabled"}

\* refresh, AppState::Init; found: LiveNavigator::from_path returns Ok, with p
\* selected
RefreshInit(found, p, probe, monitor) ==
    /\ state.tag = "Init"
    /\ ~found => p = MaxPath /\ probe
    /\ Handle("refresh", "",
              IF windowInteraction # "Unavailable" THEN AppPanicked
              ELSE IF found THEN AppShowBlank(p, windowInteraction, probe, monitor)
              ELSE AppShowError(StateDisabled, windowInteraction, monitor))
    /\ UNCHANGED <<finQ, contQ, mailbox>>

\* refresh, AppState::Loading; motion is the variant of a decoded Picture
RefreshLoading(motion, monitor) ==
    /\ state.tag = "Loading"
    /\ finQ = <<>> => motion /\ monitor
    /\ IF finQ = <<>>
       THEN /\ Handle("refresh", "",
                      Left(state, UnavailableToNone(windowInteraction), mode, NoPath))
            /\ UNCHANGED <<finQ, contQ, mailbox>>
       ELSE /\ finQ' = Tail(finQ)
            /\ IF Head(finQ).path # state.entries
               THEN /\ Handle("refresh", "",
                              Left(state, UnavailableToNone(windowInteraction), mode, NoPath))
                    /\ contQ' = contQ + 1
                    /\ UNCHANGED mailbox
               ELSE IF ~mailbox.some
               THEN /\ Handle("refresh", "", AppPanicked)
                    /\ UNCHANGED <<contQ, mailbox>>
               ELSE /\ mailbox' = None
                    /\ IF mailbox.ok
                       THEN /\ Handle("refresh", "",
                                      Left(StateDrawing(state.entries, motion),
                                           windowInteraction, mode, NoPath))
                            /\ contQ' = contQ + 1
                       ELSE /\ Handle("refresh", "",
                                      AppShowError(StateIdle(state.entries, 0),
                                                   EndZoom(windowInteraction), monitor))
                            /\ contQ' = IF monitor THEN contQ + 1 ELSE contQ

\* refresh, AppState::Drawing; some: the player has a frame, cloneOk: the
\* frame is no error, iccOk: transform_to_icc returns Ok
RefreshDrawing(some, cloneOk, iccOk, monitor) ==
    /\ state.tag = "Drawing"
    /\ ~state.motion => some /\ cloneOk
    /\ ~some => cloneOk /\ iccOk /\ monitor
    /\ ~cloneOk => iccOk
    /\ cloneOk /\ iccOk => monitor
    /\ LET next == IF state.motion THEN state ELSE StateIdle(state.entries, 0)
       IN  Handle("refresh", "",
                  IF state.motion /\ ~some
                  THEN Left(state, windowInteraction, mode, NoPath)
                  ELSE IF (state.motion => cloneOk) /\ iccOk
                  THEN Left(next, UnavailableToNone(windowInteraction), "Picture", NoPath)
                  ELSE AppShowError(next, EndZoom(windowInteraction), monitor))
    /\ UNCHANGED <<finQ, contQ, mailbox>>

\* LiveNavigator::refresh: Ok((entries, dirty)) with a selected path, or Err
Refreshed == {"dirty", "clean", "failed"}

\* the Idle arms with timer.elapsed() >= REFRESH_RATE for the guard
RefreshIdleAtRate(refreshed, p, probe, monitor) ==
    /\ state.tag = "Idle"
    /\ state.timer < REFRESH_RATE => refreshed = "clean" /\ p = state.entries
    /\ refreshed # "dirty" => probe
    /\ refreshed = "clean" => monitor
    /\ refreshed = "failed" => p = state.entries
    /\ Handle("refresh", IF state.timer >= REFRESH_RATE THEN refreshed ELSE "",
              IF state.timer >= REFRESH_RATE
              THEN CASE refreshed = "dirty" ->
                            AppShowBlank(p, EndZoom(windowInteraction), probe, monitor)
                     [] refreshed = "clean" ->
                            Left(StateIdle(p, 0), UnavailableToNone(windowInteraction),
                                 mode, NoPath)
                     [] OTHER ->
                            AppShowError(StateDisabled, EndZoom(windowInteraction), monitor)
              ELSE Left(state, UnavailableToNone(windowInteraction), mode, NoPath))
    /\ UNCHANGED <<finQ, contQ, mailbox>>

\* the Idle arm that shows no blank and sends no path on a dirty refresh
RefreshIdleNoReload(refreshed, p, probe, monitor) ==
    /\ state.tag = "Idle"
    /\ state.timer <= REFRESH_RATE => refreshed = "clean" /\ p = state.entries
    /\ refreshed # "dirty" => probe
    /\ refreshed = "clean" => monitor
    /\ refreshed = "failed" => p = state.entries
    /\ Handle("refresh", IF state.timer > REFRESH_RATE THEN refreshed ELSE "",
              IF state.timer > REFRESH_RATE
              THEN CASE refreshed \in {"dirty", "clean"} ->
                            Left(StateIdle(p, 0), UnavailableToNone(windowInteraction),
                                 mode, NoPath)
                     [] OTHER ->
                            AppShowError(StateDisabled, EndZoom(windowInteraction), monitor)
              ELSE Left(state, UnavailableToNone(windowInteraction), mode, NoPath))
    /\ UNCHANGED <<finQ, contQ, mailbox>>

\* refresh, the two arms of AppState::Idle; p is the path selected after the
\* navigator's refresh
RefreshIdle(refreshed, p, probe, monitor) ==
    /\ state.tag = "Idle"
    /\ state.timer <= REFRESH_RATE => refreshed = "clean" /\ p = state.entries
    /\ refreshed # "dirty" => probe
    /\ refreshed = "clean" => monitor
    /\ refreshed = "failed" => p = state.entries
    /\ Handle("refresh", IF state.timer > REFRESH_RATE THEN refreshed ELSE "",
              IF state.timer > REFRESH_RATE
              THEN CASE refreshed = "dirty" ->
                            AppShowBlank(p, EndZoom(windowInteraction), probe, monitor)
                     [] refreshed = "clean" ->
                            Left(StateIdle(p, 0), UnavailableToNone(windowInteraction),
                                 mode, NoPath)
                     [] OTHER ->
                            AppShowError(StateDisabled, EndZoom(windowInteraction), monitor)
              ELSE Left(state, UnavailableToNone(windowInteraction), mode, NoPath))
    /\ UNCHANGED <<finQ, contQ, mailbox>>

\* refresh, state @ _ => state
RefreshDisabled ==
    /\ state.tag = "Disabled"
    /\ Handle("refresh", "", Left(state, windowInteraction, mode, NoPath))
    /\ UNCHANGED <<finQ, contQ, mailbox>>

\* time passes on the Instant of Idle
Elapse ==
    /\ state.tag = "Idle"
    /\ state.timer <= REFRESH_RATE
    /\ state' = [state EXCEPT !.timer = state.timer + REFRESH_RATE]
    /\ UNCHANGED <<windowInteraction, handled, mode, loaderVars>>
    /\ UNCHANGED notApp

\* process_window_event, CursorMoved; originOk: get_position returns Ok
CursorMoved(originOk) ==
    /\ Running
    /\ windowInteraction # "Zoom" => originOk
    /\ Handle("CursorMoved", "",
              IF windowInteraction = "Zoom" /\ ~originOk THEN Exited(mode)
              ELSE Left(state, windowInteraction, mode, NoPath))
    /\ UNCHANGED <<finQ, contQ, mailbox>>

\* process_window_event, KeyboardInput Left or Right, and App::navigate; p is
\* the path selected after LiveNavigator::navigate
KeyboardInput(p, probe, monitor) ==
    /\ Running
    /\ windowInteraction # "None" \/ state.tag \in {"Init", "Disabled"} =>
            p = MaxPath /\ probe /\ monitor
    /\ Handle("KeyboardInput", "",
              IF windowInteraction # "None" THEN Left(state, windowInteraction, mode, NoPath)
              ELSE IF state.tag \in {"Idle", "Drawing", "Loading"}
              THEN AppShowBlank(p, "Unavailable", probe, monitor)
              ELSE Left(state, "Unavailable", mode, NoPath))
    /\ UNCHANGED <<finQ, contQ, mailbox>>

\* DroppedFile, but change_path is called in every interaction, which is left
\* as it is
DroppedFileAlways ==
    /\ Running
    /\ Handle("DroppedFile", "", Left(StateInit, windowInteraction, mode, NoPath))
    /\ UNCHANGED <<finQ, contQ, mailbox>>

\* process_window_event, DroppedFile, and App::change_path
DroppedFile ==
    /\ Running
    /\ Handle("DroppedFile", "",
              IF windowInteraction = "None" THEN Left(StateInit, "Unavailable", mode, NoPath)
              ELSE Left(state, windowInteraction, mode, NoPath))
    /\ UNCHANGED <<finQ, contQ, mailbox>>

\* process_window_event, MouseInput Pressed Left; dragOk: window.drag returns
\* Ok.  The left button is down for as long as Drag lasts (Drag begins with
\* its press and ends with its release), so no press arrives in Drag.
LeftPressed(dragOk) ==
    /\ Running
    /\ windowInteraction # "Drag"
    /\ windowInteraction # "None" => dragOk
    /\ Handle("LeftPressed", "",
              IF windowInteraction = "None"
              THEN Left(state, IF dragOk THEN "Drag" ELSE "None", mode, NoPath)
              ELSE Left(state, windowInteraction, mode, NoPath))
    /\ UNCHANGED <<finQ, contQ, mailbox>>

\* process_window_event, MouseInput Pressed Right; zoomOk: get_position and
\* WindowZoomInteraction::new return Ok.  The right button is down for as long
\* as Zoom lasts, so no press arrives in Zoom.
RightPressed(zoomOk) ==
    /\ Running
    /\ windowInteraction # "Zoom"
    /\ windowInteraction # "None" \/ mode = "Error" => zoomOk
    /\ Handle("RightPressed", "",
              IF windowInteraction = "None" /\ mode # "Error"
              THEN IF zoomOk THEN Left(state, "Zoom", mode, NoPath) ELSE Exited(mode)
              ELSE Left(state, windowInteraction, mode, NoPath))
    /\ UNCHANGED <<finQ, contQ, mailbox>>

\* process_window_event, MouseInput Released Left
LeftReleased ==
    /\ Running
    /\ Handle("LeftReleased", "",
              Left(state, IF windowInteraction = "Drag" THEN "Unavailable"
                          ELSE windowInteraction, mode, NoPath))
    /\ UNCHANGED <<finQ, contQ, mailbox>>

\* process_window_event, MouseInput Released Right
RightReleased ==
    /\ Running
    /\ Handle("RightReleased", "", Left(state, EndZoom(windowInteraction), mode, NoPath))
    /\ UNCHANGED <<finQ, contQ, mailbox>>

\* process_window_event, ScaleFactorChanged
ScaleFactorChanged ==
    /\ Running
    /\ Handle("ScaleFactorChanged", "", Left(state, EndZoom(windowInteraction), mode, NoPath))
    /\ UNCHANGED <<finQ, contQ, mailbox>>

\* the driver, the window events it is sent and the worker thread of its
\* PictureLoader, whose loop (app.rs 144-158) is the loop of the decoder
AppNext ==
    \/ \E found \in BOOLEAN, p \in DecodePaths, probe \in BOOLEAN, monitor \in BOOLEAN :
            RefreshInit(found, p, probe, monitor)
    \/ \E motion \in BOOLEAN, monitor \in BOOLEAN : RefreshLoading(motion, monitor)
    \/ \E some \in BOOLEAN, cloneOk \in BOOLEAN, iccOk \in BOOLEAN, monitor \in BOOLEAN :
            RefreshDrawing(some, cloneOk, iccOk, monitor)
    \/ \E refreshed \in Refreshed, p \in DecodePaths, probe \in BOOLEAN, monitor \in BOOLEAN :
            RefreshIdle(refreshed, p, probe, monitor)
    \/ RefreshDisabled
    \/ Elapse
    \/ \E originOk \in BOOLEAN : CursorMoved(originOk)
    \/ \E p \in DecodePaths, probe \in BOOLEAN, monitor \in BOOLEAN :
            KeyboardInput(p, probe, monitor)
    \/ DroppedFile
    \/ \E dragOk \in BOOLEAN : LeftPressed(dragOk)
    \/ \E zoomOk \in BOOLEAN : RightPressed(zoomOk)
    \/ LeftReleased
    \/ RightReleased
    \/ ScaleFactorChanged
    \/ WorkerReceive /\ UNCHANGED <<playerVars, seqVars>>
    \/ \E ok \in BOOLEAN : WorkerStore(ok) /\ UNCHANGED <<playerVars, seqVars>>
    \/ WorkerPublish /\ UNCHANGED <<playerVars, seqVars>>
    \/ WorkerContinue /\ UNCHANGED <<playerVars, seqVars>>

\* before App::new
NoApp ==
    /\ state = AppState("None", NoPath, 0, FALSE)
    /\ windowInteraction = "Unavailable"
    /\ handled = NoHandled

\* App::new
AppNew ==
    /\ state = StateInit
    /\ windowInteraction = "Unavailable"
    /\ handled = NoHandled

Init == NavInit /\ LoaderInit /\ PlayerInit /\ SeqInit /\ NoInterface /\ NoApp
Next == NavNext
Spec == Init /\ [][Next]_vars

\* the decoder alone
LoaderSpec == Init /\ [][LoaderNext]_vars

\* the sequencer with its decoder
SequencerSpec == Init /\ [][SeqNext]_vars

\* the steps of the worker thread (loader.rs 40-56): the thread is spawned
\* once and loops for as long as the decoder lives
WorkerStep ==
    /\ \/ WorkerReceive
       \/ \E ok \in BOOLEAN : WorkerStore(ok)
       \/ WorkerPublish
       \/ WorkerContinue
    /\ UNCHANGED <<playerVars, seqVars>>

\* a call of Iterator::next (loader.rs 285-323), the poll's continue included
CallNext ==
    \/ NextNone
    \/ NextPictureError
    \/ NextDimensions
    \/ \E pic \in Pictures, cloneOk \in BOOLEAN : NextFetch(pic, cloneOk)
    \/ \E cloneOk \in BOOLEAN : NextLoaded(cloneOk)
    \/ TryFetchContinue /\ UNCHANGED <<playerVars, seqVars>>

\* the sequencer when the worker thread is scheduled, every decode returns
\* and the caller keeps calling next
SequencerFairSpec ==
    Init /\ [][SeqNext]_vars /\ WF_vars(WorkerStep) /\ WF_vars(CallNext)

\* the player alone
PlayerSpec == Init /\ [][PlayerStep]_vars

\* compute_viewport alone: the monitors, the windows position_size_next leaves
\* for pictures of these sizes, the cursor at the right press, and the places
\* the cursor is moved to during the zoom
ZoomScreens == {<<400, 300>>, <<300, 400>>}
ZoomDimensions == {<<160, 120>>, <<640, 640>>, <<120, 200>>, <<40, 20>>, <<300, 50>>}
ZoomBuilt == {Window(<<40, 30>>, <<200, 150>>), Window(<<150, 100>>, <<200, 150>>)}
ZoomCursors == {<<0, 0>>, <<60, 40>>, <<100, 100>>}
ZoomPositions == {<<0, 0>>, <<60, 40>>, <<250, 50>>, <<50, 250>>, <<300, 300>>}

\* the machine right after a right press in NoInteraction
ZoomInit ==
    /\ NavInit /\ LoaderInit /\ PlayerInit /\ SeqInit /\ NoApp
    /\ \E screen \in ZoomScreens : \E built \in ZoomBuilt : \E d \in ZoomDimensions :
       \E cur \in ZoomCursors :
           LET win == PositionSizeNext(built, screen, d).window
               z == ZoomInteractionNew(win, screen, cur)
               entered == ZoomEnter(z, win)
           IN  /\ interaction = "ZoomInteraction"
               /\ mode = "Blank"
               /\ window = entered.window
               /\ viewport = entered.viewport
               /\ pointer = cur
               /\ zoom = z
               /\ platform = [origin |-> TRUE, screen |-> screen]
               /\ zooms = 1
               /\ call = [name |-> "refresh",
                          event |-> WindowEvent("MouseInput", <<0, 0>>, "Pressed", "Right"),
                          from |-> "NoInteraction", drag |-> FALSE,
                          failed |-> {}]

\* the cursor moves during the zoom, back to where it was captured as well
ZoomNext ==
    \E p \in ZoomPositions \cup {zoom.cursor_captured} :
        ZoomRefresh(WindowEvent("CursorMoved", p, "", ""))

ZoomSpec == ZoomInit /\ [][ZoomNext]_vars

\* the driver alone, from App::new on
AppInit == NavInit /\ LoaderInit /\ PlayerInit /\ SeqInit /\ NoInterface /\ AppNew
AppSpec == AppInit /\ [][AppNext]_vars

\* the interface alone, from Interface::new on
InterfaceInit ==
    /\ NavInit /\ LoaderInit /\ PlayerInit /\ SeqInit /\ NoApp
    /\ \E supported \in BOOLEAN : \E screen \in Screens : \E built \in BuiltWindows :
           InterfaceNew(supported, screen, built)
InterfaceSpec == InterfaceInit /\ [][InterfaceNext]_vars

\* the reader starts before PictureDirectoryReader::new
ReaderSpec == Init /\ [][ReaderNext]_vars

TypeOK ==
    /\ nav \in {"none", "ready", "refreshing", "failed"}
    /\ processed \in 0..MaxBatch

\* ------------------------------------------------------------ claims
\* the path selected when the last step started
SelectedBefore == Selected(last.filepaths, last.cursor)

\* C1: navigate(d), for any signed step d, sets the cursor to (c + d) mod N
\* taken in [0, N), N the length of the list, and leaves the list unchanged.
C1_NavigateWraps ==
    last.op = "navigate" =>
        /\ cursor \in 0..(Len(last.filepaths) - 1)
        /\ \E k \in (0 - 200)..200 :
                last.cursor + last.d = k * Len(last.filepaths) + cursor
        /\ filepaths = last.filepaths

C1_Witness ==
    /\ last.op = "navigate"
    /\ last.d = -128
    /\ Len(filepaths) = 3
    /\ last.cursor = 0
    /\ cursor = 1

\* C2: while a navigator exists (after a successful from_path, navigate or
\* refresh, and before every message and the rescan of a refresh) the list is
\* non-empty and 0 <= cursor < len.
C2_CursorInRange ==
    nav \in {"ready", "refreshing"} =>
        /\ filepaths # <<>>
        /\ cursor \in 0..(Len(filepaths) - 1)

C2_Witness ==
    /\ nav = "refreshing"
    /\ last.op = "event"
    /\ last.ev.kind = "Remove"
    /\ Len(last.filepaths) = 3
    /\ last.cursor = 2
    /\ Len(filepaths) = 2
    /\ processed = MaxBatch

\* the index search_for finds for the path of the last message
RemovedIndex == SearchFor(last.filepaths, last.ev.path)

\* C3: a Remove of a listed path before the cursor decrements the cursor by
\* 1, keeps the selected path and does not touch dirty; a Remove of a listed
\* path after the cursor leaves cursor and dirty unchanged.
C3_RemoveBesideCursor ==
    (last.op = "event" /\ last.ev.kind = "Remove" /\ RemovedIndex # -1) =>
        /\ RemovedIndex < last.cursor =>
              /\ nav = "refreshing"
              /\ cursor = last.cursor - 1
              /\ Selected(filepaths, cursor) = SelectedBefore
              /\ dirty = last.dirty
        /\ RemovedIndex > last.cursor =>
              /\ nav = "refreshing"
              /\ cursor = last.cursor
              /\ dirty = last.dirty

C3_Witness ==
    /\ last.op = "event"
    /\ last.ev.kind = "Remove"
    /\ RemovedIndex # -1
    /\ RemovedIndex < last.cursor
    /\ ~dirty
    /\ Len(filepaths) = 2

\* a dirty flag set during the batch is still set after every later message,
\* and it is the flag a successful refresh returns
DirtyIsReturned ==
    /\ (last.op = "event" /\ last.dirty /\ nav = "refreshing") => dirty
    /\ (last.op = "end" /\ result.kind = "Ok") => result.dirty = last.dirty

HasPictureExtension(p) ==
    ExtensionOf(p) \in {"png", "PNG", "gif", "GIF", "jpg", "JPG"}

\* the supported files of the directory the last step read
PicturesSeen == {n \in Names : last.fs[n] = "file" /\ HasPictureExtension(n)}

Rescanned == last.op = "end" /\ last.rescan

\* C5 as stated: a refresh that rescans while the selected path is still a
\* supported file of the directory succeeds, with the same path selected.
C5_RescanKeepsSelection_Original ==
    (Rescanned /\ SelectedBefore \in PicturesSeen) =>
        /\ nav = "ready"
        /\ result.kind = "Ok"
        /\ Selected(filepaths, cursor) = SelectedBefore

\* C5 (amended): a refresh that rescans while the selected path is still a
\* supported file of the directory, and whose directory listing can be read,
\* succeeds with the same path selected and with the list the directory's
\* supported files; when the listing cannot be read it fails with IO.
C5_RescanKeepsSelection ==
    (Rescanned /\ SelectedBefore \in PicturesSeen) =>
        IF last.io
        THEN nav = "failed" /\ result.kind = "IO"
        ELSE /\ nav = "ready"
             /\ result.kind = "Ok"
             /\ Selected(filepaths, cursor) = SelectedBefore
             /\ {filepaths[i] : i \in 1..Len(filepaths)} = PicturesSeen

C5_Witness ==
    /\ Rescanned
    /\ SelectedBefore \in PicturesSeen
    /\ ~last.io
    /\ result.kind = "Ok"
    /\ Len(last.filepaths) = 1
    /\ last.cursor = 0
    /\ Len(filepaths) = 3
    /\ cursor = 2

\* C6: a Write of the path selected when the message is handled sets dirty,
\* which the refresh returns; a batch of Write events for other paths only
\* returns dirty = false and leaves list and cursor as they were.
C6_WriteMarksDirty ==
    /\ (last.op = "event" /\ last.ev.kind = "Write"
            /\ last.ev.path = SelectedBefore) =>
          (nav = "refreshing" /\ dirty)
    /\ DirtyIsReturned
    /\ (last.op = "end" /\ quiet.on) =>
          /\ nav = "ready"
          /\ result = Ok(FALSE)
          /\ filepaths = quiet.filepaths
          /\ cursor = quiet.cursor

C6_Witness ==
    /\ last.op = "event"
    /\ last.ev.kind = "Write"
    /\ last.ev.path = SelectedBefore
    /\ processed = 2
    /\ ~last.dirty
    /\ dirty

C6_WitnessQuiet ==
    /\ last.op = "end"
    /\ quiet.on
    /\ processed = MaxBatch
    /\ Len(filepaths) = 3

\* C7 as stated: when a Remove or a rescan leaves the filtered list empty,
\* the refresh fails with EmptyList (here for a listing that could be read).
C7_EmptyListError_Original ==
    /\ (last.op = "event" /\ last.ev.kind = "Remove" /\ filepaths = <<>>) =>
          (nav = "failed" /\ result.kind = "EmptyList")
    /\ (Rescanned /\ ~last.io /\ PicturesSeen = {}) =>
          (nav = "failed" /\ result.kind = "EmptyList")

\* C7 (amended): a Remove that leaves the list empty makes the refresh fail
\* with EmptyList; a rescan that finds no supported file makes it fail with
\* InvalidPath, NoMatchingEntry or IO, and no rescan ends in EmptyList; in
\* each case no navigator is left.
C7_EmptyListError ==
    /\ (last.op = "event" /\ last.ev.kind = "Remove" /\ filepaths = <<>>) =>
          (nav = "failed" /\ result.kind = "EmptyList")
    /\ (Rescanned /\ PicturesSeen = {}) =>
          /\ nav = "failed"
          /\ result.kind \in {"InvalidPath", "NoMatchingEntry", "IO"}
    /\ Rescanned => result.kind # "EmptyList"
    /\ nav \in {"ready", "refreshing"} => filepaths # <<>>

C7_Witness ==
    /\ last.op = "event"
    /\ last.ev.kind = "Remove"
    /\ filepaths = <<>>
    /\ processed = 2
    /\ result.kind = "EmptyList"

C7_WitnessRescan ==
    /\ Rescanned
    /\ PicturesSeen = {}
    /\ ~last.io
    /\ result.kind = "NoMatchingEntry"

\* C8 as stated: a rescan that no longer finds the selected path fails with
\* NoMatchingEntry carrying that path (here for a listing that could be read).
C8_SelectionGone_Original ==
    (Rescanned /\ ~last.io /\ SelectedBefore \notin PicturesSeen) =>
        /\ nav = "failed"
        /\ result = Err("NoMatchingEntry", SelectedBefore)
        /\ filepaths = last.filepaths
        /\ cursor = last.cursor

\* C8 (amended): a rescan whose selected path is no supported file any more
\* fails, with list and cursor as they were: with InvalidPath carrying the
\* path when nothing is found under it, else with IO when the listing cannot
\* be read, else (the path is a file with an excluded name, or a directory)
\* with NoMatchingEntry carrying the path.
C8_SelectionGone ==
    (Rescanned /\ SelectedBefore \notin PicturesSeen) =>
        /\ nav = "failed"
        /\ filepaths = last.filepaths
        /\ cursor = last.cursor
        /\ result =
              IF last.fs[SelectedBefore] = "none"
              THEN Err("InvalidPath", SelectedBefore)
              ELSE IF last.io THEN Err("IO", Root)
              ELSE Err("NoMatchingEntry", SelectedBefore)

C8_Witness ==
    /\ Rescanned
    /\ last.fs[SelectedBefore] = "none"
    /\ PicturesSeen # {}
    /\ result.kind = "InvalidPath"
    /\ Len(last.filepaths) = 2

C8_WitnessRenamed ==
    /\ Rescanned
    /\ last.fs[SelectedBefore] = "file"
    /\ ~HasPictureExtension(SelectedBefore)
    /\ PicturesSeen # {}
    /\ result = Err("NoMatchingEntry", SelectedBefore)

\* ---- from_path, judged on the directory it read
\* the kind of the path from_path was called with
PathKind == IF last.path = Root THEN "dir" ELSE last.fs[last.path]

\* the supported files of the directory from_path scans for its path
Scanned == IF last.path = Root \/ PathKind = "file" THEN PicturesSeen ELSE {}

\* from_path succeeded, with the cursor on its path if that is a file, on
\* the first entry if it is a directory
FromPathSucceeded ==
    /\ nav = "ready"
    /\ result.kind = "Ok"
    /\ {filepaths[i] : i \in 1..Len(filepaths)} = Scanned
    /\ cursor \in 0..(Len(filepaths) - 1)
    /\ IF PathKind = "file"
       THEN Selected(filepaths, cursor) = last.path
       ELSE cursor = 0 /\ \A n \in Scanned : Selected(filepaths, cursor) <= n

\* C9 as stated: from_path ends in InvalidPath, NoMatchingEntry, EmptyList or
\* success, decided by the kind of the path and the filtered list alone.
C9_FromPathOutcomes_Original ==
    last.op = "from_path" =>
        CASE PathKind = "none" -> nav = "failed" /\ result.kind = "InvalidPath"
          [] PathKind = "file" /\ last.path \notin Scanned
                -> nav = "failed" /\ result.kind = "NoMatchingEntry"
          [] PathKind = "dir" /\ Scanned = {}
                -> nav = "failed" /\ result.kind = "EmptyList"
          [] OTHER -> FromPathSucceeded

\* C9 (amended): from_path ends in InvalidPath when the path is neither file
\* nor directory; else in IO when the directory cannot be listed; else in
\* NoMatchingEntry when the path is a file outside the filtered list; else in
\* Notify when the watch cannot be set up; else in EmptyList when the path is
\* a directory whose filtered list is empty; else it succeeds, the cursor on
\* the path if it is a file and on the first entry if it is a directory.
C9_FromPathOutcomes ==
    last.op = "from_path" =>
        CASE PathKind = "none"
                -> nav = "failed" /\ result = Err("InvalidPath", last.path)
          [] PathKind # "none" /\ last.io
                -> nav = "failed" /\ result.kind = "IO"
          [] PathKind = "file" /\ ~last.io /\ last.path \notin Scanned
                -> nav = "failed" /\ result = Err("NoMatchingEntry", last.path)
          [] PathKind # "none" /\ ~last.io /\ last.ne
               /\ ~(PathKind = "file" /\ last.path \notin Scanned)
                -> nav = "failed" /\ result.kind = "Notify"
          [] PathKind = "dir" /\ ~last.io /\ ~last.ne /\ Scanned = {}
                -> nav = "failed" /\ result.kind = "EmptyList"
          [] OTHER -> FromPathSucceeded

C9_Witness ==
    /\ last.op = "from_path"
    /\ PathKind = "file"
    /\ result.kind = "Ok"
    /\ Len(filepaths) = 3
    /\ cursor = 1
    /\ \E n \in Names : last.fs[n] = "file" /\ ~HasPictureExtension(n)

C9_WitnessDirectory ==
    /\ last.op = "from_path"
    /\ last.path = Root
    /\ result.kind = "Ok"
    /\ Len(filepaths) = 2
    /\ Selected(filepaths, cursor) = 3

\* ------------------------------------------------------------ decoder claims
\* a finished path is published and the continue for it is not yet sent
Unacknowledged == finQ # <<>> \/ mpc = "continue"

\* C10: from the publication of a finished path to the continue sent for it
\* the worker waits and writes nothing, so the mailbox taken on a path match
\* is the outcome stored for the published job, whatever was requested
\* since; and continue is sent only once the mailbox is taken or skipped.
C10_MailboxHeldUntilContinue ==
    /\ Unacknowledged => (wpc = "wait" /\ contQ = 0)
    /\ finQ # <<>> =>
          (Len(finQ) = 1 /\ mailbox.some /\ mailbox.id = finQ[1].id)
    /\ (mpc = "continue" /\ received.path = current.path) =>
          (fetched.some /\ fetched.id = received.id /\ ~mailbox.some)
    /\ (mpc = "continue" /\ received.path # current.path) =>
          (~fetched.some /\ mailbox.some /\ mailbox.id = received.id)
    /\ contQ \in 0..1
    /\ mpc # "panicked"

C10_Witness ==
    /\ mpc = "continue"
    /\ received.path = current.path
    /\ received.id < current.id
    /\ reqQ # <<>>
    /\ fetched.some
    /\ fetched.id = received.id

\* the jobs the worker is decoding or about to publish, and the jobs
\* published and not yet acknowledged
InFlight ==
    (IF wpc \in {"decode", "publish"} THEN 1 ELSE 0)
    + Len(finQ) + (IF mpc = "continue" THEN 1 ELSE 0)

\* C11: at any instant at most one job is being decoded or awaits its
\* acknowledgement, however many requests are queued: the worker decodes or
\* publishes only while no published path is unacknowledged, and while one is
\* it waits.
C11_OneJobInFlight ==
    /\ InFlight <= 1
    /\ wpc \in {"recv", "decode", "publish"} => (finQ = <<>> /\ mpc # "continue")
    /\ wpc \in {"decode", "publish"} => contQ = 0
    /\ wpc = "wait" => InFlight + contQ = 1

C11_Witness ==
    /\ wpc = "wait"
    /\ finQ # <<>>
    /\ Len(reqQ) = 2
    /\ job.id = 1

\* C12: try_fetch_picture returns an outcome only when the finished path it
\* received equals the current path of that poll, and the outcome was decoded
\* from that path; for a different finished path it returns nothing.
C12_OnlyCurrentPathReturned ==
    mpc = "continue" =>
        IF received.path = current.path
        THEN fetched.some /\ fetched.path = current.path
        ELSE ~fetched.some

C12_Witness ==
    /\ mpc = "continue"
    /\ fetched.some
    /\ fetched.path = current.path
    /\ fetched.id = current.id
    /\ current.id = 3

\* ------------------------------------------------------------ sequencer claims
\* C13 as stated: every outcome the sequencer yields was decoded for the most
\* recent load request.
C13_SupersededNeverYielded ==
    yielded.id # 0 => yielded.id = current.id

\* the sequencer holds a still picture whose probe and decodes all succeeded
ValidStill ==
    /\ picture.state \in {"Loading", "Loaded"}
    /\ ~picture.motion
    /\ errors = 0

C15_ErrorAtMostOnce ==
    ~picture.motion =>
        /\ errors <= 1
        /\ picture.state = "PictureError" => items \in {<<>>, <<"PictureError">>}
        /\ (picture.state = "Loading" /\ errors = 1) =>
              items = <<"Loading", "PictureError">>

\* ------------------------------------------------------------ player claims
\* C16: the player yields a frame only on a call where the time elapsed since
\* the previously yielded frame is at least the interval that frame declared;
\* on an earlier call next yields nothing and leaves the playhead; and until
\* a first frame is yielded no call waits.
C16_FrameOnlyWhenDue ==
    tick.called =>
        /\ frame.kind = "Frame" => tick.waited >= tick.needed
        /\ tick.waited < tick.needed =>
              (frame.kind = "None" /\ player.playhead = tick.playhead)
        /\ tick.first => (tick.needed = 0 /\ frame.kind # "None")

C16_Witness ==
    /\ tick.called
    /\ ~tick.first
    /\ frame.kind = "Frame"
    /\ frame.index = 1
    /\ tick.needed = 2
    /\ tick.waited = 2
    /\ tick.declared = 1

C16_WitnessEarly ==
    /\ tick.called
    /\ frame.kind = "None"
    /\ tick.needed = 2
    /\ tick.waited = 1

\* C17: in DisabledInteraction no window event changes the interaction; the
\* machine leaves DisabledInteraction only in show_blank, show_picture or
\* show_error, and a successful one leaves it in NoInteraction
C17_DisabledBlocksEvents ==
    call.from = "DisabledInteraction" =>
        /\ call.name = "refresh" => interaction = "DisabledInteraction"
        /\ interaction # "DisabledInteraction" =>
              call.name \in {"show_blank", "show_picture", "show_error"}
        /\ call.name \in {"show_blank", "show_picture", "show_error"} =>
              interaction \in {"NoInteraction", "Err"}

\* a left press arrived in DisabledInteraction, entered from NoInteraction
\* with a picture shown, and the machine is still disabled
C17_Witness ==
    /\ call.from = "DisabledInteraction"
    /\ call.name = "refresh"
    /\ LeftPress(call.event)
    /\ interaction = "DisabledInteraction"
    /\ mode = "Picture"

\* a show_error called in DisabledInteraction left the machine in NoInteraction
C17_WitnessShow ==
    /\ call.from = "DisabledInteraction"
    /\ call.name = "show_error"
    /\ interaction = "NoInteraction"
    /\ mode = "Error"

\* C18 as stated: a left press in NoInteraction while the error display is
\* shown calls no drag and does not enter DragInteraction
C18_LeftPressNotOnError ==
    (call.name = "refresh" /\ call.from = "NoInteraction" /\ LeftPress(call.event)
        /\ mode = "Error") =>
        (~call.drag /\ interaction = "NoInteraction")

\* C18, amended: a left press in NoInteraction calls drag whatever the mode,
\* the error display included; the machine is in DragInteraction afterwards,
\* or gone when drag returned Err; nothing else takes NoInteraction to
\* DragInteraction
C18_LeftPressDrags ==
    (call.name = "refresh" /\ call.from = "NoInteraction") =>
        /\ LeftPress(call.event) => (call.drag /\ interaction \in {"DragInteraction", "Err"})
        /\ interaction = "DragInteraction" => (LeftPress(call.event) /\ call.drag)
        /\ call.drag => LeftPress(call.event)

\* a left press on the error display started a drag
C18_Witness ==
    /\ call.name = "refresh"
    /\ call.from = "NoInteraction"
    /\ LeftPress(call.event)
    /\ call.drag
    /\ interaction = "DragInteraction"
    /\ mode = "Error"

\* C19: a right press in NoInteraction while the error display is shown does
\* not enter ZoomInteraction, captures nothing, and leaves the window and the
\* viewport as they are
C19_RightPressNotOnError ==
    [][(interaction = "NoInteraction" /\ mode = "Error"
            /\ call'.name = "refresh" /\ RightPress(call'.event)) =>
        /\ interaction' # "ZoomInteraction"
        /\ zoom' = NoZoom
        /\ interaction' = "NoInteraction" => (window' = window /\ viewport' = viewport)]_vars

\* C20: in ZoomInteraction a right release or a scale-factor change leaves the
\* machine in NoInteraction with the window sized as the viewport was, placed
\* at the viewport's origin with the vertical coordinate measured from the top
\* of the captured screen, and the viewport at (0, 0); any other window event
\* leaves the machine in ZoomInteraction
C20_ZoomLeft ==
    [][(interaction = "ZoomInteraction" /\ call'.name = "refresh") =>
        IF call'.event.kind = "ScaleFactorChanged" \/ RightRelease(call'.event)
        THEN /\ interaction' = "NoInteraction"
             /\ window'.size = viewport.size
             /\ window'.origin =
                   <<viewport.origin[1],
                     zoom.screen_size_captured[2] - (viewport.origin[2] + viewport.size[2])>>
             /\ viewport' = Viewport(<<0, 0>>, viewport.size)
        ELSE interaction' = "ZoomInteraction"]_vars

\* a right release ended a zoom of the 160 x 120 window at (60, 45) in which
\* the cursor had moved 5 up: the window has the size of the zoomed viewport,
\* which was at (60, 133) from the bottom left of the 400 x 300 screen
C20_Witness ==
    /\ call.name = "refresh"
    /\ call.from = "ZoomInteraction"
    /\ RightRelease(call.event)
    /\ interaction = "NoInteraction"
    /\ window = Window(<<60, 45>>, <<162, 122>>)
    /\ viewport = Viewport(<<0, 0>>, <<162, 122>>)

\* C21: disable_interaction leaves the machine in DisabledInteraction when it is
\* called in DisabledInteraction, NoInteraction or ZoomInteraction, from
\* ZoomInteraction with the window and the viewport the end of a zoom leaves;
\* called in DragInteraction it panics
C21_DisableInteraction ==
    [][(interaction \in Live /\ call'.name = "disable_interaction") =>
        IF interaction = "DragInteraction"
        THEN interaction' = "Panicked"
        ELSE /\ interaction' = "DisabledInteraction"
             /\ zoom' = NoZoom
             /\ IF interaction = "ZoomInteraction"
                THEN /\ window' =
                           Window(<<viewport.origin[1],
                                    zoom.screen_size_captured[2]
                                        - (viewport.origin[2] + viewport.size[2])>>,
                                  viewport.size)
                     /\ viewport' = Viewport(<<0, 0>>, viewport.size)
                ELSE window' = window /\ viewport' = viewport]_vars

\* disable_interaction was called during a drag and panicked
C21_Witness ==
    /\ call.name = "disable_interaction"
    /\ call.from = "DragInteraction"
    /\ interaction = "Panicked"

\* disable_interaction ended the zoom of the 160 x 120 window at (60, 45) in
\* which the cursor had moved 5 up
C21_WitnessZoom ==
    /\ call.name = "disable_interaction"
    /\ call.from = "ZoomInteraction"
    /\ interaction = "DisabledInteraction"
    /\ window = Window(<<60, 45>>, <<162, 122>>)
    /\ viewport = Viewport(<<0, 0>>, <<162, 122>>)

ShowNames == {"show_blank", "show_picture", "show_error"}

\* C22 as stated: show_blank, show_picture and show_error called in
\* DragInteraction or ZoomInteraction and returning Ok leave the machine in the
\* interaction it was in
C22_ShowKeepsInteraction ==
    (call.name \in ShowNames /\ call.from \in {"DragInteraction", "ZoomInteraction"}) =>
        interaction \in {call.from, "Err"}

\* C22, amended: called in DragInteraction, show_blank, show_picture and
\* show_error leave the machine in DragInteraction; called in ZoomInteraction, a
\* show_picture whose colour transform succeeds leaves it in ZoomInteraction with
\* the same ZoomInteraction, window and viewport, while show_blank, show_error
\* and a show_picture whose colour transform fails end the zoom and leave the
\* machine in NoInteraction (gone, in both interactions, when the call failed)
C22_ShowEndsZoom ==
    [][(interaction \in {"DragInteraction", "ZoomInteraction"}
            /\ call'.name \in ShowNames /\ interaction' # "Err") =>
        IF interaction = "DragInteraction"
        THEN interaction' = "DragInteraction" /\ zoom' = NoZoom
        ELSE IF call'.name = "show_picture" /\ mode' = "Picture"
        THEN /\ interaction' = "ZoomInteraction"
             /\ zoom' = zoom /\ window' = window /\ viewport' = viewport
        ELSE /\ interaction' = "NoInteraction"
             /\ zoom' = NoZoom
             /\ mode' = IF call'.name = "show_blank" THEN "Blank" ELSE "Error"
             /\ viewport'.origin = <<0, 0>>]_vars

\* show_error called during a zoom left the machine in NoInteraction
C22_Witness ==
    /\ call.name = "show_error"
    /\ call.from = "ZoomInteraction"
    /\ interaction = "NoInteraction"
    /\ mode = "Error"
    /\ zoom = NoZoom

\* show_picture called during a zoom left the machine zooming
C22_WitnessPicture ==
    /\ call.name = "show_picture"
    /\ call.from = "ZoomInteraction"
    /\ interaction = "ZoomInteraction"
    /\ mode = "Picture"
    /\ zoom.some

\* show_blank called during a drag left the machine dragging
C22_WitnessDrag ==
    /\ call.name = "show_blank"
    /\ call.from = "DragInteraction"
    /\ interaction = "DragInteraction"
    /\ mode = "Blank"

\* a CursorMoved was handled in ZoomInteraction: the viewport is the one
\* compute_viewport returned for pointer
Computed ==
    /\ interaction = "ZoomInteraction"
    /\ call.name = "refresh"
    /\ call.from = "ZoomInteraction"
    /\ call.event.kind = "CursorMoved"

\* C23: with the cursor where it was captured, compute_viewport returns the
\* captured window: its size, and its origin with the vertical coordinate
\* measured from the bottom of the captured screen; whatever moves came before
C23_ZeroDeltaFixedPoint ==
    (Computed /\ CursorToScreenSpace(window, pointer) = zoom.cursor_captured) =>
        viewport =
            Viewport(<<zoom.window_origin_captured[1],
                       zoom.screen_size_captured[2]
                           - (zoom.window_origin_captured[2] + zoom.window_size_captured[2])>>,
                     zoom.window_size_captured)

\* the cursor is back where it was captured, over the 240 x 240 window that was
\* at (20, -15) on the 400 x 300 screen
C23_Witness ==
    /\ Computed
    /\ CursorToScreenSpace(window, pointer) = zoom.cursor_captured
    /\ zoom.cursor_captured = <<80, 25>>
    /\ zoom.window_size_captured = <<240, 240>>
    /\ viewport = Viewport(<<20, 75>>, <<240, 240>>)

\* C24: a window captured with both sides of at least MIN_WINDOW_SIZE is never
\* given a viewport with a side below MIN_WINDOW_SIZE
C24_NoSideBelowMin ==
    (Computed /\ zoom.window_size_captured[1] >= MIN_WINDOW_SIZE
              /\ zoom.window_size_captured[2] >= MIN_WINDOW_SIZE) =>
        (viewport.size[1] >= MIN_WINDOW_SIZE /\ viewport.size[2] >= MIN_WINDOW_SIZE)

\* C25: the zoom compute_viewport applies lies within zoom_bounds, and the
\* viewport is no wider and no higher than the captured screen
C25_ZoomWithinBounds ==
    Computed =>
        LET zm == Zoom(zoom, CursorToScreenSpace(window, pointer))
            w == zoom.window_size_captured[1]
            h == zoom.window_size_captured[2]
        IN  /\ ~Less(zm, zoom.zoom_bounds[1])
            /\ ~Less(zoom.zoom_bounds[2], zm)
            /\ viewport.size = <<Round(Mul(Whole(w), zm)), Round(Mul(Whole(h), zm))>>
            /\ Round(Mul(Whole(w), zoom.zoom_bounds[1])) <= viewport.size[1]
            /\ Round(Mul(Whole(h), zoom.zoom_bounds[1])) <= viewport.size[2]
            /\ viewport.size[1] <= zoom.screen_size_captured[1]
            /\ viewport.size[2] <= zoom.screen_size_captured[2]

\* the cursor moved far enough to the right for the 240 x 240 window to fill
\* the height of the 400 x 300 screen
C25_Witness ==
    /\ Computed
    /\ zoom.window_size_captured = <<240, 240>>
    /\ zoom.screen_size_captured = <<400, 300>>
    /\ pointer = <<250, 50>>
    /\ viewport.size = <<300, 300>>

\* C29: a poll that receives a finished path other than the current path
\* returns None and leaves the mailbox as it is, still holding the outcome of
\* the finished job, and then sends one continue signal, the only one in flight
C29_MismatchReleasesWorker ==
    [][/\ (mpc = "idle" /\ mpc' = "continue" /\ received'.path # current.path) =>
            /\ ~fetched'.some
            /\ mailbox' = mailbox
            /\ mailbox.some /\ mailbox.id = received'.id
            /\ contQ' = contQ /\ contQ = 0
       /\ (mpc = "continue" /\ received.path # current.path) =>
            /\ mailbox' = mailbox
            /\ mpc' = "idle" => (contQ' = 1 /\ ~fetched'.some /\ wpc' = "wait")]_vars

\* the poll found the outcome of request 1 finished while request 2, for
\* another path, was current: the outcome is still in the mailbox and the
\* continue signal is on its way
C29_Witness ==
    /\ mpc = "idle"
    /\ received.id = 1
    /\ current.id = 2
    /\ received.path # current.path
    /\ ~fetched.some
    /\ mailbox.some /\ mailbox.id = 1
    /\ contQ = 1
    /\ wpc = "wait"

\* C30: the worker stores the outcome of a decode, failed or not, publishes
\* the path, waits for the continue signal and then looks for the next
\* request; it leaves none of these steps in any other way
C30_WorkerLoopsOnError ==
    [][/\ wpc' \in {"recv", "decode", "publish", "wait"}
       /\ (wpc = "decode" /\ wpc' # wpc) =>
            (wpc' = "publish" /\ mailbox'.some /\ mailbox' = Some(job, mailbox'.ok))
       /\ (wpc = "publish" /\ wpc' # wpc) =>
            (wpc' = "wait" /\ finQ' = Append(finQ, job) /\ mailbox' = mailbox)
       /\ (wpc = "wait" /\ wpc' # wpc) =>
            (wpc' = "recv" /\ contQ > 0 /\ contQ' = contQ - 1)
       /\ (wpc = "recv" /\ wpc' # wpc) =>
            (wpc' = "decode" /\ job' = reqQ[Len(reqQ)])]_vars

\* the decode of request 1 failed and was fetched, and the worker is decoding
\* a later request
C30_Witness ==
    /\ fetched.some /\ ~fetched.ok /\ fetched.id = 1
    /\ wpc = "decode"
    /\ job.id > 1

\* C28: under fair scheduling of the worker thread and of the calls of next,
\* from some point on a load whose probe succeeded has yielded the outcome of
\* a decode of its path: no load stays in Loading without a PictureError
\* yielded, none reaches Loaded without an item yielded; the loads are
\* finitely many, so this is the last load, whatever was pending before it
Outcome == \E i \in 1..Len(items) : items[i] \in {"Loaded", "PictureError"}

C28_EventuallyYields ==
    <>[](/\ picture.state = "Loading" => Outcome
         /\ picture.state = "Loaded" => Outcome)

\* the third load, made while the worker holds the outcome of the first and
\* the second request is queued, has yielded the outcome of its own decode
C28_Witness ==
    /\ current.id = 3
    /\ picture.state = "Loaded"
    /\ picture.id = 3
    /\ yielded = Item("Loaded", 3)

\* a step of the driver that is a call of one of its handlers
Handling(name) == handled'.turn # handled.turn /\ handled'.name = name

\* C26: in AppState::Disabled a refresh and a navigation key leave the driver
\* Disabled, and a dropped file puts it in Init
C26_DisabledUntilDrop ==
    [][state.tag = "Disabled" =>
        /\ Handling("refresh") \/ Handling("KeyboardInput") => state'.tag = "Disabled"
        /\ Handling("DroppedFile") => state'.tag = "Init"]_vars

\* C27: a refresh in Idle that returns Ok and in which the navigator reports
\* dirty shows the blank, sends the path selected now to the worker and leaves
\* Loading, or, when the dimensions of that path cannot be read, shows the
\* error, sends nothing and leaves Idle; one in which the navigator reports
\* no change, or is not asked, sends nothing and leaves Idle
C27_DirtyReloads ==
    [][(Handling("refresh") /\ state.tag = "Idle" /\ state'.tag # "Exited") =>
        CASE handled'.refreshed = "dirty" ->
                \/ /\ state'.tag = "Loading"
                   /\ mode' = "Blank"
                   /\ reqQ' = Append(reqQ, [path |-> state'.entries, id |-> 0])
                \/ /\ state'.tag = "Idle"
                   /\ mode' = "Error"
                   /\ reqQ' = reqQ
          [] handled'.refreshed \in {"clean", ""} ->
                /\ state'.tag = "Idle"
                /\ mode' = mode
                /\ reqQ' = reqQ
          [] OTHER -> TRUE]_vars

\* a dirty refresh has sent the selected path to the worker, which has not
\* taken it yet, while the picture shown before is still in the mailbox
C27_Witness ==
    /\ handled.name = "refresh"
    /\ handled.refreshed = "dirty"
    /\ state.tag = "Loading"
    /\ reqQ = <<[path |-> state.entries, id |-> 0]>>
    /\ wpc = "wait"
    /\ job.path # state.entries

\* a dirty refresh whose dimension probe failed
C27_WitnessProbe ==
    /\ handled.name = "refresh"
    /\ handled.refreshed = "dirty"
    /\ state.tag = "Idle"
    /\ mode = "Error"
    /\ state.timer = 0

\* Vec<PathBuf> in strictly ascending order
Ascending(list) == \A i \in 1..(Len(list) - 1) : list[i] < list[i + 1]

\* C31: after every successful from_path and every successful refresh (and
\* every navigate in between) the list is in strictly ascending order: sorted
\* and without duplicates
C31_SortedList == nav = "ready" => Ascending(filepaths)

\* a refresh has ended successfully after the Rename of the selected path put
\* its destination in place, out of order, and the rescan sorted the listing
C31_Witness ==
    /\ nav = "ready"
    /\ last.op = "end"
    /\ last.rescan
    /\ ~Ascending(last.filepaths)
    /\ Len(filepaths) >= 3

\* a refresh has ended successfully after a Remove event, without a rescan
C31_WitnessRemove ==
    /\ nav = "ready"
    /\ last.op = "end"
    /\ ~last.rescan
    /\ Len(filepaths) = 2
    /\ Len(quiet.filepaths) = 0
    /\ result = Ok(TRUE)

\* a step that is a call of next in which the looper advances
Advancing == player.on /\ player'.on /\ elapsed' # elapsed + 1 /\ elapsed >= player.interval

\* C32: a new player starts at frame 0 with one frame pulled; every advance
\* yields the frame at the playhead, which is a valid index into the stash
\* after the pull of that advance, and moves the playhead to the next frame of
\* the animation, to frame 0 after the last; the frames stay in decode order
C32_FramesInOrder ==
    /\ [](player.on /\ ~tick.called => player.playhead = 0 /\ Len(player.stash) = 1)
    /\ [][Advancing =>
            LET n == Len(player.stash) + Len(player.rest)
            IN  /\ frame'.kind # "None"
                /\ frame'.index = player.playhead
                /\ player.playhead < Len(player'.stash)
                /\ player'.playhead = (player.playhead + 1) % n
                /\ player'.stash \o player'.rest = player.stash \o player.rest
                /\ Len(player'.rest) = IF player.rest = <<>> THEN 0
                                       ELSE Len(player.rest) - 1]_vars

\* the animation of MaxFrames frames has been played through once, and its
\* frame 0 has been yielded a second time
C32_Witness ==
    /\ player.on
    /\ Len(player.stash) = MaxFrames
    /\ player.rest = <<>>
    /\ frame = Frame(0)
    /\ tick.called /\ ~tick.first
    /\ tick.playhead = 0
    /\ player.playhead = 1 % MaxFrames

\* C33: the machine becomes DragInteraction or ZoomInteraction only from
\* NoInteraction, and a window event takes it out of DragInteraction only when
\* it is the release of the left button, which leaves NoInteraction
C33_ModalFromIdle ==
    [][/\ interaction' = "DragInteraction" /\ interaction # "DragInteraction"
            => interaction = "NoInteraction"
       /\ interaction' = "ZoomInteraction" /\ interaction # "ZoomInteraction"
            => interaction = "NoInteraction"
       /\ interaction = "DragInteraction" /\ interaction' # "DragInteraction"
                /\ call'.name = "refresh"
            => LeftRelease(call'.event) /\ interaction' = "NoInteraction"]_vars

\* a drag begun in NoInteraction has ended on the release of the left button
\* after the window system moved the window
C33_Witness ==
    /\ call.name = "refresh"
    /\ call.from = "DragInteraction"
    /\ LeftRelease(call.event)
    /\ interaction = "NoInteraction"
    /\ window.origin \in Drops

\* a right press in DisabledInteraction has left the machine there
C33_WitnessDisabled ==
    /\ call.name = "refresh"
    /\ call.from = "DisabledInteraction"
    /\ RightPress(call.event)
    /\ interaction = "DisabledInteraction"

\* C34: in every interaction state, a show_picture whose colour transform fails
\* ends with the mode Error and a live machine (NoInteraction, or
\* DragInteraction when called in a drag), which is success for the caller; the
\* call fails only when its show_error fails
C34_TransformErrorShown ==
    [][(interaction \in Live /\ call'.name = "show_picture"
            /\ "transform_to_icc" \in call'.failed) =>
        IF "show_error" \in call'.failed
        THEN interaction' = "Err"
        ELSE /\ mode' = "Error"
             /\ interaction' = IF interaction = "DragInteraction"
                               THEN "DragInteraction" ELSE "NoInteraction"
             /\ zoom' = NoZoom]_vars

\* a show_picture called during a zoom with a picture shown failed at the
\* transform and left the error shown
C34_Witness ==
    /\ call.name = "show_picture"
    /\ call.failed = {"transform_to_icc"}
    /\ call.from = "ZoomInteraction"
    /\ interaction = "NoInteraction"
    /\ mode = "Error"

\* the same called in DisabledInteraction
C34_WitnessDisabled ==
    /\ call.name = "show_picture"
    /\ call.failed = {"transform_to_icc"}
    /\ call.from = "DisabledInteraction"
    /\ interaction = "NoInteraction"
    /\ mode = "Error"

\* the same with show_error failing too
C34_WitnessBoth ==
    /\ call.name = "show_picture"
    /\ call.failed = {"transform_to_icc", "show_error"}
    /\ interaction = "Err"

\* C35: in AppState::Idle the driver calls the navigator's refresh exactly on
\* the ticks where more than REFRESH_RATE has elapsed since the Instant of
\* Idle; on the other ticks the navigator is not called and the state, its
\* entries and its Instant is kept; after a refresh that is not dirty the
\* state is Idle with the Instant taken anew
C35_RefreshAfterRate ==
    [][(Handling("refresh") /\ state.tag = "Idle") =>
        /\ handled'.refreshed # "" <=> state.timer > REFRESH_RATE
        /\ state.timer <= REFRESH_RATE => state' = state
        /\ handled'.refreshed = "clean" =>
              state'.tag = "Idle" /\ state'.timer = 0]_vars

\* a tick after more than REFRESH_RATE found the directory unchanged
C35_Witness ==
    /\ handled.name = "refresh"
    /\ handled.refreshed = "clean"
    /\ state.tag = "Idle"
    /\ state.timer = 0
    /\ windowInteraction = "None"

\* C39: whenever the state is AppState::Init the interaction is Unavailable,
\* whatever window events and ticks came before, so a refresh that runs with
\* AppState::Init passes assert_unavailable and does not panic
C39_InitUnavailable ==
    /\ [](state.tag = "Init" => windowInteraction = "Unavailable")
    /\ [][(Handling("refresh") /\ state.tag = "Init") => state'.tag # "Panicked"]_vars

\* refresh ran with AppState::Init and left Loading: the interaction is still
\* Unavailable and the path is sent
C39_Witness ==
    /\ handled.name = "refresh"
    /\ handled.refreshed = ""
    /\ state.tag = "Loading"
    /\ windowInteraction = "Unavailable"
    /\ mode = "Blank"

\* a file dropped on a shown picture made the state Init
C39_WitnessDropped ==
    /\ handled.name = "DroppedFile"
    /\ state.tag = "Init"
    /\ mode = "Picture"
    /\ windowInteraction = "Unavailable"

\* C36: whenever try_fetch_picture receives a finished path equal to the
\* current path, the mailbox holds an outcome, which the poll takes, so the
\* take().unwrap() never panics, however set_filepath, the polls and the
\* steps of the worker interleave
C36_TakeNeverPanics ==
    /\ [](mpc # "panicked")
    /\ [][(mpc = "idle" /\ finQ # <<>> /\ finQ' = Tail(finQ)
                /\ Head(finQ).path = current.path) =>
            /\ mailbox.some
            /\ fetched' = mailbox
            /\ ~mailbox'.some
            /\ mpc' = "continue"]_vars

\* a poll received the path of the current request and took the error its
\* decoding gave
C36_Witness ==
    /\ mpc = "continue"
    /\ received.path = current.path
    /\ fetched.some
    /\ ~fetched.ok
    /\ fetched.id = received.id
    /\ ~mailbox.some
    /\ wpc = "wait"

\* a poll received the path of a superseded request, equal to the current
\* path, and took its outcome
C36_WitnessSuperseded ==
    /\ mpc = "continue"
    /\ received.path = current.path
    /\ received.id + 2 = current.id
    /\ fetched.some
    /\ ~mailbox.some

\* C37: in every state at most one finished path is pending on the channel to
\* the main thread and at most one continue on the channel to the worker, and
\* not both at once; and the continues sent never outnumber the finished
\* paths received, because every continue is sent by a poll that has received
\* a finished path and has not sent a continue for it: the poll comes to its
\* send only by receiving, and the send ends it
C37_OnePendingEachWay ==
    /\ [](Len(finQ) <= 1 /\ contQ <= 1 /\ Len(finQ) + contQ <= 1)
    /\ [][(contQ' > contQ =>
                (mpc = "continue" /\ mpc' = "idle" /\ contQ' = contQ + 1))
           /\ ((mpc # "continue" /\ mpc' = "continue") =>
                (finQ # <<>> /\ finQ' = Tail(finQ) /\ contQ' = contQ))]_vars

\* the continue for a finished path is pending while the worker still waits
\* and a newer request is queued
C37_Witness ==
    /\ contQ = 1
    /\ finQ = <<>>
    /\ mpc = "idle"
    /\ wpc = "wait"
    /\ received = job
    /\ reqQ # <<>>

\* a finished path is pending while two newer requests are queued
C37_WitnessFinished ==
    /\ Len(finQ) = 1
    /\ contQ = 0
    /\ Len(reqQ) = 2
    /\ wpc = "wait"

\* the window the ZoomInteraction captured
Captured == Window(zoom.window_origin_captured, zoom.window_size_captured)

\* C38: a zoom entered from NoInteraction and left again while the viewport and
\* the window are as the entry left them, which they are when the cursor has
\* not moved in between, leaves the window with the size and the origin
\* captured at the entry and the viewport at (0, 0) with the captured size
C38_ZoomRoundTrip ==
    [][(/\ interaction = "ZoomInteraction"
        /\ interaction' = "NoInteraction"
        /\ call'.name = "refresh"
        /\ viewport = ZoomEnter(zoom, Captured).viewport
        /\ window = ZoomEnter(zoom, Captured).window) =>
            /\ window' = Captured
            /\ viewport' = Viewport(<<0, 0>>, zoom.window_size_captured)]_vars

\* the 160 x 120 window at (60, 45) is back after a zoom ended by a right
\* release, the cursor never having moved
C38_Witness ==
    /\ call.name = "refresh"
    /\ call.from = "ZoomInteraction"
    /\ RightRelease(call.event)
    /\ interaction = "NoInteraction"
    /\ pointer = <<0, 0>>
    /\ zooms = 1
    /\ window = Window(<<60, 45>>, <<160, 120>>)
    /\ viewport = Viewport(<<0, 0>>, <<160, 120>>)

\* the path the reader's navigator selects
ReaderSelected == Selected(filepaths, cursor)

\* C40, as stated: after every successful operation of the reader the current
\* path of the decoder is the selected path of the navigator
C40_CurrentIsSelected ==
    nav = "ready" => current.path = ReaderSelected

\* C40, amended: after every successful new, change_path and navigate, and
\* after every successful refresh_filepaths whose refresh reported dirty, the
\* current path is the selected path; a successful refresh_filepaths whose
\* refresh did not report dirty leaves the current path as it was, and the
\* selected path changes in a refresh only with dirty set or by a Rename of
\* the selected path (a rescan selects the path that was selected)
C40_CurrentFollowsLoads ==
    /\ []((nav = "ready"
                /\ (last.op \in {"new", "change_path", "navigate"} \/ result.dirty)) =>
            current.path = ReaderSelected)
    /\ [][((nav = "refreshing" /\ nav' = "ready") =>
                /\ ReaderSelected' = ReaderSelected
                /\ result'.dirty = dirty
                /\ ~dirty => current' = current)
           /\ ((nav = "refreshing" /\ nav' = "refreshing"
                    /\ ReaderSelected' # ReaderSelected) =>
                (dirty' \/ last'.ev = Unit("Rename")))
           /\ ((nav = "ready" /\ nav' = "refreshing") =>
                (ReaderSelected' = ReaderSelected /\ current' = current))]_vars

\* a refresh_filepaths that drained a Rename of the selected path returned Ok
\* without a load: the navigator selects the new name, the current path is
\* the old one
C40_Witness ==
    /\ nav = "ready"
    /\ last.op = "refresh_filepaths"
    /\ ~result.dirty
    /\ current.id = 1
    /\ current.path # ReaderSelected
    /\ Len(filepaths) = 3

\* a refresh_filepaths that found the selected path removed loaded the path
\* selected in its place
C40_WitnessDirty ==
    /\ nav = "ready"
    /\ last.op = "refresh_filepaths"
    /\ result.dirty
    /\ current.id = 2
    /\ current.path = ReaderSelected
    /\ reqQ[1].path # current.path

====
